---- MODULE Spec2Model ----
(***************************************************************************)
(* Precision N-back: the trial scheduler, the score tracker and the        *)
(* session-end handler, as a state machine.                                *)
(*                                                                         *)
(* Two builds of the game component are modelled, selected by `variant`:   *)
(*   variant 1: src/components/NBackGame.tsx (one hit counter, the trial   *)
(*              loop is a repeating transport event) with the session-end  *)
(*              handler of src/App.tsx:61-92;                              *)
(*   variant 2: the game component in src/types.ts:181-657 (per-modality   *)
(*              hit counters, self-rescheduling trial loop, the            *)
(*              feedbackEnabled switch) with the session-end handler of    *)
(*              src/App.tsx:249-291.                                       *)
(*                                                                         *)
(* React state and its mirrors.  history, trialNumber and score are React  *)
(* state: a functional update (setScore(s => ...)) is applied to the       *)
(* variable at once, which is the value the next render will show.  The    *)
(* mirrors historyRef, trialNumberRef and scoreRef are written by effects  *)
(* that run after a render, so they only follow at the Render step.  A     *)
(* key press or click is rendered synchronously at the end of its handler; *)
(* a transport callback (a trial tick) is rendered in a later task, which  *)
(* leaves a window, `dirty`, in which handlers still read the old mirrors. *)
(* respondedToRef and totalMatchesRef are plain refs, written at once.     *)
(*                                                                         *)
(* Presentation-only state (feedback, buttonHighlights, devLureInfo,       *)
(* isStimulusVisible, stimulusSize, the synth) is not part of the model.   *)
(***************************************************************************)
EXTENDS Integers, Sequences, FiniteSets, TLC

VARIABLES
    variant,          \* which build of the game / session-end handler runs
    settings,         \* App: the settings record handed to the game
    gameState,        \* App: GameState
    performanceHistory, \* App: PerformanceRecord[]
    mounted,          \* the NBackGame component is mounted
    audio,            \* position of startAudio: "awaiting" Tone.start(), "started"
    transportStarted, \* Tone.Transport is running
    scheduled,        \* a runTrial event is on the transport timeline
    strayTicks,       \* runTrial events on the timeline that an earlier game
                      \* component left there
    history,          \* useState history
    twinHistory,      \* the history of a second session that receives the
                      \* same random values
    nextIsi,          \* the delay in ms after which the transport fires the
                      \* next runTrial, 0 while none was scheduled
    trialNumber,      \* useState trialNumber
    score,            \* useState score
    historyRef,       \* mirror of history
    trialNumberRef,   \* mirror of trialNumber
    scoreRef,         \* mirror of score
    respondedTo,      \* respondedToRef: set of <<event id, modality>>
    totalMatches,     \* totalMatchesRef
    missesBy,         \* history: the misses runTrial counted, by modality
    dirty,            \* a render of tick-originated updates is pending
    endCalls,         \* number of onGameEnd invocations so far
    lastEnd,          \* arguments of the most recent onGameEnd invocation
    ticks,            \* number of runTrial executions so far
    lastOp,           \* the operation that produced the current state, and for a
                      \* response whether the handler let it through
    \* the Calibration component and the App state around it
    calVariant,       \* which build of Calibration runs: "A" or "B"
    isCalibratingForGame, \* App: useState isCalibratingForGame
    calMounted,       \* the Calibration component is mounted
    mode,             \* useState mode: "selection" or the modality under test
    trialCount,       \* useState trialCount
    trialStep,        \* useState trialStep
    feedback,         \* useState feedback: "none" (null), "correct", "incorrect"
    thresholdsRef,    \* thresholdsRef.current
    trialTimeout,     \* the pending timeout of trialTimeoutRef and what its
                      \* callback closed over
    effectDue,        \* the step effect's dependencies changed in the last render
    completeCalls,    \* number of onComplete invocations so far
    lastComplete,     \* argument of the most recent onComplete invocation
    responses,        \* history: responses the handler let through in this run
    incorrects,       \* history: those of them classified incorrect
    lastAnswer,       \* history: the latest of them: "none", "same", "different"
    calOp             \* the calibration operation that produced the current state

vars == <<variant, settings, gameState, performanceHistory, mounted, audio,
          transportStarted, scheduled, strayTicks, history, twinHistory,
          nextIsi,
          trialNumber, score,
          historyRef, trialNumberRef, scoreRef, respondedTo, totalMatches,
          missesBy, dirty, endCalls, lastEnd, ticks, lastOp,
          calVariant, isCalibratingForGame, calMounted, mode, trialCount,
          trialStep, feedback, thresholdsRef, trialTimeout, effectDue,
          completeCalls, lastComplete, responses, incorrects, lastAnswer,
          calOp>>

\* the state of the Calibration component and of its callbacks
calVars == <<calVariant, isCalibratingForGame, calMounted, mode, trialCount,
             trialStep, feedback, thresholdsRef, trialTimeout, effectDue,
             completeCalls, lastComplete, responses, incorrects, lastAnswer,
             calOp>>

\* the state of the game component and of its callbacks
gameVars == <<variant, performanceHistory, mounted, audio, transportStarted,
              scheduled, strayTicks, history, twinHistory, nextIsi,
              trialNumber, score,
              historyRef,
              trialNumberRef, scoreRef, respondedTo, totalMatches, missesBy,
              dirty, endCalls, lastEnd, ticks, lastOp>>

----------------------------------------------------------------------------
(* Bounds *)

MaxN == 2            \* largest nLevel drawn in Init
MaxTrials == 3       \* largest totalTrials drawn in Init
MaxDualTrials == 2   \* largest totalTrials drawn with two modalities enabled
MaxDualN == 1        \* largest nLevel drawn with two modalities enabled
\* cap on runTrial executions: room for a whole session, and a bound on the
\* endless loop of a tick chain that was started after the unmount
MaxTicks == MaxTrials + 2
RandDen == 3         \* Math.random() is drawn from {0/RandDen .. (RandDen-1)/RandDen}
MaxLagN == 6         \* largest nLevel of the lag-selection specification
MaxLagEvents == 2    \* events generated in the lag-selection specification

(* Program constants; a threshold is kept as a whole number of            *)
(* ten-thousandths of its unit (cents, hue degrees, radius or screen      *)
(* fraction), so 0.005 is 50 and 290 is 2900000                           *)

AudioThresholdDefault == 2900000
ColorThresholdDefault == 280000
ShapeThresholdDefault == 2000
MinAudioThreshold == 50000
MinColorThreshold == 20000
MinShapeThreshold == 100

\* Calibration: MIN_*_DELTA, the trial cap of the ascending procedure and the
\* trial budget of the converging staircase
MIN_AUDIO_DELTA == 50000
MIN_SPATIAL_DELTA == 50
MIN_COLOR_DELTA == 20000
MIN_SHAPE_DELTA == 100
MAX_CALIBRATION_TRIALS == 20
TRIALS_PER_CALIBRATION == 15

\* the smallest values the manual threshold inputs of the settings screen
\* accept (their min attributes)
AudioInputMin == 10000
SpatialInputMin == 10
ColorInputMin == 10000
ShapeInputMin == 100
\* a spatial threshold well above the calibration minimum (0.02)
SpatialThresholdTypical == 200

Modality == {"spatial", "audio", "color", "shape"}
ModalityOrder == <<"spatial", "audio", "color", "shape">>
EnabledConfigs == {{"audio"}, {"spatial", "audio"}}

\* <<matchRate, lureRate>> in units of 1/RandDen
RateConfigs == {<<1, 1>>}

\* the values Math.random() takes, in units of 1/RandDen
RandVals == 0 .. (RandDen - 1)

Max(a, b) == IF a >= b THEN a ELSE b

SumOver(f) == f["spatial"] + f["audio"] + f["color"] + f["shape"]

ZeroByModality == [m \in Modality |-> 0]

----------------------------------------------------------------------------
(* Score *)

InitialScore ==
    [hits |-> IF variant = 1 THEN 0 ELSE ZeroByModality,
     misses |-> 0,
     falseAlarms |-> ZeroByModality]

TotalHits(s) == IF variant = 1 THEN s.hits ELSE SumOver(s.hits)

TotalFalseAlarms(s) == SumOver(s.falseAlarms)

InitialTotalMatches == IF variant = 1 THEN 0 ELSE ZeroByModality

TotalMatchCount(t) == IF variant = 1 THEN t ELSE SumOver(t)

----------------------------------------------------------------------------
(* activeModalities effect: the enabled modalities in the fixed order *)

activeModalities == SelectSeq(ModalityOrder, LAMBDA m : m \in settings.enabled)

----------------------------------------------------------------------------
(* Lag selection *)

\* the non-trivial divisors of maxN found by the loop i = 2 .. sqrt(maxN)
Divisors(maxN) ==
    UNION {{i, maxN \div i} : i \in {j \in 2 .. maxN : j * j <= maxN /\ maxN % j = 0}}

getValidNValues(maxN) ==
    IF maxN <= 2
    THEN [i \in 1 .. maxN |-> i]
    ELSE SelectSeq([i \in 1 .. maxN |-> i], LAMBDA i : i \notin Divisors(maxN))

validNValues == IF settings.variableN THEN getValidNValues(settings.nLevel) ELSE <<>>

\* the values the lag draw can take: 1 + floor(random * nLevel) in variant 1,
\* the index the weighted draw selects in variant 2 (every weight is positive,
\* so every index can be selected)
NDraws ==
    IF ~settings.variableN THEN {1}
    ELSE IF variant = 1 THEN 1 .. settings.nLevel
    ELSE IF Len(validNValues) <= 1 THEN {1}
    ELSE 1 .. Len(validNValues)

\* the lag n of the next event, from the draw
SelectN(nDraw, tn, hist) ==
    IF ~settings.variableN THEN settings.nLevel
    ELSE IF variant = 1
    THEN IF tn > 0 /\ nDraw = hist[tn].n /\ settings.nLevel > 1
         THEN (nDraw % settings.nLevel) + 1
         ELSE nDraw
    ELSE IF Len(validNValues) = 0 THEN 1
    ELSE IF Len(validNValues) = 1 THEN validNValues[1]
    ELSE validNValues[nDraw]

----------------------------------------------------------------------------
(* Event generation *)

\* which branch a modality's draw takes
DrawBranch(rand) ==
    IF rand < settings.matchRate THEN "match"
    ELSE IF rand < settings.matchRate + settings.lureRate THEN "lure"
    ELSE "random"

\* faulty variant: the match branch runs during the ramp-up as well
MatchFlagsNoRampUp(ready, draws) ==
    [m \in Modality |->
        m \in settings.enabled /\ DrawBranch(draws[m]) = "match"]

\* isMatch of the new event
MatchFlags(ready, draws) ==
    [m \in Modality |->
        ready /\ m \in settings.enabled /\ DrawBranch(draws[m]) = "match"]

\* faulty variant: every lure overwrites the label, so the last one stays
LureLabelLast(ready, draws) ==
    LET lures == SelectSeq(activeModalities,
                           LAMBDA m : DrawBranch(draws[m]) = "lure")
    IN IF ready /\ Len(lures) > 0 THEN lures[Len(lures)] ELSE "none"

\* lureType of the new event: the first active modality whose draw is a lure
LureLabel(ready, draws) ==
    LET lures == SelectSeq(activeModalities,
                           LAMBDA m : DrawBranch(draws[m]) = "lure")
    IN IF ready /\ Len(lures) > 0 THEN lures[1] ELSE "none"

\* isReadyForMatch: the trial index has reached the lag
IsReadyForMatch(tn, n) == tn >= n

\* targetEvent = history[trialNumber - n] is defined
HasTarget(tn, n, hist) == tn - n >= 0 /\ tn - n + 1 <= Len(hist)

\* the event generateNextEvent returns; hist and tn are the mirrors it reads
generateNextEvent(nDraw, draws, tn, hist) ==
    LET n == SelectN(nDraw, tn, hist)
        isReadyForMatch == IsReadyForMatch(tn, n) /\ HasTarget(tn, n, hist)
    IN [id |-> tn,
        n |-> n,
        isMatch |-> MatchFlags(isReadyForMatch, draws),
        lureType |-> LureLabel(isReadyForMatch, draws)]

\* totalMatchesRef after the event's match branches ran
CountMatches(t, ev) ==
    IF variant = 1
    THEN t + Cardinality({m \in Modality : ev.isMatch[m]})
    ELSE [m \in Modality |-> IF ev.isMatch[m] THEN t[m] + 1 ELSE t[m]]

----------------------------------------------------------------------------
(* Initial state: the application has just mounted the game component      *)
(* (GameState.Playing); its start effect has called startAudio, which is   *)
(* suspended at await Tone.start().                                        *)

AllSettings ==
    [nLevel : 1 .. MaxN,
     variableN : BOOLEAN,
     totalTrials : 1 .. MaxTrials,
     matchRate : {r[1] : r \in RateConfigs},
     lureRate : {r[2] : r \in RateConfigs},
     feedbackEnabled : BOOLEAN,
     enabled : EnabledConfigs,
     audioThreshold : {AudioThresholdDefault},
     colorThreshold : {ColorThresholdDefault},
     shapeThreshold : {ShapeThresholdDefault}]

SettingsConfigs ==
    {c \in AllSettings :
        Cardinality(c.enabled) > 1 =>
            c.totalTrials <= MaxDualTrials /\ c.nLevel <= MaxDualN}

NoEnd == [score |-> <<>>, totalMatches |-> 0, completed |-> FALSE]

NoTimeout == [kind |-> "none", next |-> "none", wasCorrect |-> FALSE,
              nextTrialCount |-> 0]

NoOp == [name |-> "init", same |-> FALSE, accepted |-> FALSE]

\* the Calibration component is not on screen
CalibrationIdle ==
    /\ calVariant = "A"
    /\ isCalibratingForGame = FALSE
    /\ calMounted = FALSE
    /\ mode = "selection"
    /\ trialCount = 0
    /\ trialStep = "stimulus"
    /\ feedback = "none"
    /\ thresholdsRef = <<>>
    /\ trialTimeout = NoTimeout
    /\ effectDue = FALSE
    /\ completeCalls = 0
    /\ lastComplete = <<>>
    /\ responses = 0
    /\ incorrects = 0
    /\ lastAnswer = "none"
    /\ calOp = NoOp

\* the game component has just mounted with one of the given settings
InitWith(configs) ==
    /\ variant \in {1, 2}
    /\ settings \in configs
    \* variant 1 has no feedbackEnabled setting
    /\ variant = 1 => settings.feedbackEnabled
    /\ gameState = "Playing"
    /\ performanceHistory = <<>>
    /\ mounted = TRUE
    /\ audio = "awaiting"
    /\ transportStarted = FALSE
    /\ scheduled = FALSE
    /\ strayTicks = 0
    /\ history = <<>>
    /\ twinHistory = <<>>
    /\ nextIsi = 0
    /\ trialNumber = 0
    /\ score = InitialScore
    /\ historyRef = <<>>
    /\ trialNumberRef = 0
    /\ scoreRef = InitialScore
    /\ respondedTo = {}
    /\ totalMatches = InitialTotalMatches
    /\ missesBy = ZeroByModality
    /\ dirty = FALSE
    /\ endCalls = 0
    /\ lastEnd = NoEnd
    /\ ticks = 0
    /\ lastOp = [name |-> "init", mod |-> "none", accepted |-> FALSE]
    /\ CalibrationIdle

Init == InitWith(SettingsConfigs)

----------------------------------------------------------------------------
(* App: the session-end handler *)

\* faulty variant: the denominator is not tested
AccuracyUnguarded(finalScore, matches) ==
    IF variant = 1
    THEN <<TotalHits(finalScore), matches>>
    ELSE LET totalFalseAlarms == TotalFalseAlarms(finalScore)
             totalNonMatches == settings.totalTrials - matches
             correctRejections == Max(0, totalNonMatches - totalFalseAlarms)
         IN <<TotalHits(finalScore) + correctRejections, settings.totalTrials>>

\* accuracy as <<numerator, denominator>>; a zero denominator yields 1
Accuracy(finalScore, matches) ==
    IF variant = 1
    THEN IF matches > 0 THEN <<TotalHits(finalScore), matches>> ELSE <<1, 1>>
    ELSE LET totalFalseAlarms == TotalFalseAlarms(finalScore)
             totalNonMatches == settings.totalTrials - matches
             correctRejections == Max(0, totalNonMatches - totalFalseAlarms)
         IN IF settings.totalTrials > 0
            THEN <<TotalHits(finalScore) + correctRejections, settings.totalTrials>>
            ELSE <<1, 1>>

\* accuracy > 0.75
AboveTarget(acc) == 4 * acc[1] > 3 * acc[2]

\* Math.max(floor, prev * 0.95), rounded down to the unit of the model
Harder(prev, floor) == Max(floor, (prev * 95) \div 100)

AdjustedSettings(prev) ==
    [prev EXCEPT !.audioThreshold = Harder(@, MinAudioThreshold),
                 !.colorThreshold = Harder(@, MinColorThreshold),
                 !.shapeThreshold = Harder(@, MinShapeThreshold)]

PerformanceRecordOf(finalScore, matches) ==
    [settings |-> [nLevel |-> settings.nLevel,
                   audioThreshold |-> settings.audioThreshold,
                   colorThreshold |-> settings.colorThreshold,
                   shapeThreshold |-> settings.shapeThreshold],
     score |-> finalScore,
     accuracy |-> Accuracy(finalScore, matches),
     totalMatches |-> matches]

\* faulty variant: the handler records the session whether or not it was completed
RecordsSessionAlways(completed) == TRUE

\* whether the handler's "if (completed)" block runs
RecordsSession(completed) == completed

\* faulty variant: the history keeps the latest record only
RecordedAlone(prev, record) == <<record>>

\* setPerformanceHistory(prev => [...prev, record])
Recorded(prev, record) == Append(prev, record)

\* handleGameEnd(finalScore, totalMatches, completed)
handleGameEnd(finalScore, matchesArg, completed) ==
    LET matches == TotalMatchCount(matchesArg)
        acc == Accuracy(finalScore, matches)
    IN /\ performanceHistory' =
            IF RecordsSession(completed)
            THEN Recorded(performanceHistory,
                          PerformanceRecordOf(finalScore, matches))
            ELSE performanceHistory
       /\ settings' =
            IF RecordsSession(completed) /\ AboveTarget(acc)
            THEN AdjustedSettings(settings)
            ELSE settings
       /\ gameState' = "Finished"

----------------------------------------------------------------------------
(* Game: endSession *)

\* endSession(completed): Transport.stop(); Transport.cancel();
\* onGameEnd(scoreRef.current, totalMatchesRef.current, completed)
endSession(completed) ==
    /\ transportStarted' = FALSE
    /\ scheduled' = FALSE
    /\ strayTicks' = 0
    /\ endCalls' = endCalls + 1
    /\ lastEnd' = [score |-> scoreRef, totalMatches |-> totalMatches,
                   completed |-> completed]
    /\ handleGameEnd(scoreRef, totalMatches, completed)

----------------------------------------------------------------------------
(* Game: the trial tick *)

\* whether runTrial resolves unanswered matches at all: always in variant 1,
\* only inside "if (feedbackEnabled)" in variant 2
ResolvesMisses == variant = 1 \/ settings.feedbackEnabled

\* the last event as the mirrors show it
LastEvent == historyRef[Len(historyRef)]

\* the modalities of the previous event that runTrial counts as misses
UnansweredMatches ==
    IF ResolvesMisses /\ trialNumberRef > 0 /\ trialNumberRef > LastEvent.n
    THEN {m \in settings.enabled :
             LastEvent.isMatch[m] /\ <<LastEvent.id, m>> \notin respondedTo}
    ELSE {}

\* faulty variant: the bound is compared with > instead of >=
SessionOverLate == trialNumberRef > settings.totalTrials

\* the session is over: trialNumberRef.current >= totalTrials
SessionOver == trialNumberRef >= settings.totalTrials

\* a state setter of the game component; a no-op once it is unmounted
SetState(new, old) == IF mounted THEN new ELSE old

\* runTrial(); started is the transport's running flag when it is entered
runTrial(nDraw, draws, started) ==
    /\ ticks' = ticks + 1
    /\ score' = SetState([score EXCEPT !.misses = @ + Cardinality(UnansweredMatches)],
                         score)
    /\ missesBy' = SetState([m \in Modality |->
                                IF m \in UnansweredMatches
                                THEN missesBy[m] + 1 ELSE missesBy[m]],
                            missesBy)
    /\ dirty' = mounted
    /\ IF SessionOver
       THEN /\ endSession(TRUE)
            /\ UNCHANGED <<history, trialNumber, totalMatches>>
       ELSE LET newEvent ==
                    generateNextEvent(nDraw, draws, trialNumberRef, historyRef)
            IN /\ history' = SetState(Append(history, newEvent), history)
               /\ trialNumber' = SetState(trialNumber + 1, trialNumber)
               /\ totalMatches' = CountMatches(totalMatches, newEvent)
               \* variant 2 schedules the next tick; the repeating event of
               \* variant 1 stays on the timeline
               /\ scheduled' = IF variant = 2 THEN TRUE ELSE scheduled
               /\ transportStarted' = started
               /\ UNCHANGED <<endCalls, lastEnd, settings, gameState,
                              performanceHistory, strayTicks>>
    /\ UNCHANGED <<variant, mounted, historyRef, trialNumberRef, scoreRef,
                   respondedTo, twinHistory,
                   nextIsi>>

\* the transport fires the scheduled runTrial event; consecutive ticks are at
\* least a stimulus duration apart, so the render of the previous tick's
\* updates has happened by then (~dirty)
Tick ==
    /\ transportStarted
    /\ scheduled
    /\ ~dirty
    /\ ticks < MaxTicks
    /\ \E nDraw \in NDraws, draws \in [settings.enabled -> RandVals] :
           runTrial(nDraw, draws, transportStarted)
    /\ lastOp' = [name |-> "tick", mod |-> "none", accepted |-> FALSE]
    /\ UNCHANGED audio
    /\ UNCHANGED calVars

\* startAudio resumes after await Tone.start()
AudioStarted ==
    /\ audio = "awaiting"
    /\ audio' = "started"
    /\ lastOp' = [name |-> "start", mod |-> "none", accepted |-> FALSE]
    /\ UNCHANGED calVars
    /\ IF variant = 1
       THEN \* scheduleRepeat(runTrial, ...); Transport.start()
            /\ scheduled' = TRUE
            /\ transportStarted' = TRUE
            /\ UNCHANGED <<variant, settings, gameState, performanceHistory,
                           mounted, history, trialNumber, score, historyRef,
                           trialNumberRef, scoreRef, respondedTo, totalMatches,
                           missesBy, dirty, endCalls, lastEnd, ticks,
                           strayTicks, twinHistory,
                           nextIsi>>
       ELSE \* Transport.start(); runTrial()
            \E nDraw \in NDraws, draws \in [settings.enabled -> RandVals] :
                runTrial(nDraw, draws, TRUE)

\* the unmount cleanup of the start effect: Transport.clear/stop/cancel
Unmounted ==
    /\ mounted' = FALSE
    /\ dirty' = FALSE

\* React renders the updates a tick queued and runs the mirror effects; when
\* the application has left GameState.Playing the game component unmounts
Render ==
    /\ dirty
    /\ historyRef' = history
    /\ trialNumberRef' = trialNumber
    /\ scoreRef' = score
    /\ lastOp' = [name |-> "render", mod |-> "none", accepted |-> FALSE]
    /\ UNCHANGED calVars
    /\ IF gameState # "Playing"
       THEN /\ Unmounted
            /\ transportStarted' = FALSE
            /\ scheduled' = FALSE
            /\ strayTicks' = 0
       ELSE /\ dirty' = FALSE
            /\ UNCHANGED <<mounted, transportStarted, scheduled, strayTicks>>
    /\ UNCHANGED <<variant, settings, gameState, performanceHistory, audio,
                   history, trialNumber, score, respondedTo, totalMatches,
                   missesBy, endCalls, lastEnd, ticks, twinHistory,
                   nextIsi>>

----------------------------------------------------------------------------
(* Game: the response handler *)

\* faulty variant: the ramp-up of the current event is not checked
AcceptedInRampUp(type) ==
    /\ trialNumberRef # 0
    /\ Len(historyRef) > 0
    /\ <<LastEvent.id, type>> \notin respondedTo

\* faulty variant: the dedup set is not consulted
AcceptedNoDedup(type) ==
    /\ trialNumberRef # 0
    /\ Len(historyRef) > 0
    /\ trialNumberRef > LastEvent.n

\* the response is not ignored: a trial has been presented, the current
\* event is past its ramp-up, and the pair has no recorded response
Accepted(type) ==
    /\ trialNumberRef # 0
    /\ Len(historyRef) > 0
    /\ trialNumberRef > LastEvent.n
    /\ <<LastEvent.id, type>> \notin respondedTo

\* faulty variant: every accepted response is credited as a hit
CreditedAsHit(s, type) ==
    IF variant = 1
    THEN [s EXCEPT !.hits = @ + 1]
    ELSE [s EXCEPT !.hits[type] = @ + 1]

\* the score after an accepted response
Credited(s, type) ==
    IF LastEvent.isMatch[type]
    THEN IF variant = 1
         THEN [s EXCEPT !.hits = @ + 1]
         ELSE [s EXCEPT !.hits[type] = @ + 1]
    ELSE [s EXCEPT !.falseAlarms[type] = @ + 1]

\* handleUserResponse(type), from a key press or a button of an enabled
\* modality; its own update is rendered synchronously, but the mirrors of a
\* tick whose render is still pending only follow at that render
handleUserResponse(type) ==
    /\ mounted
    /\ type \in settings.enabled
    /\ lastOp' = [name |-> "respond", mod |-> type, accepted |-> Accepted(type)]
    /\ UNCHANGED calVars
    /\ IF Accepted(type)
       THEN /\ score' = Credited(score, type)
            /\ respondedTo' = respondedTo \cup {<<LastEvent.id, type>>}
            /\ scoreRef' = IF dirty THEN scoreRef ELSE score'
       ELSE UNCHANGED <<score, respondedTo, scoreRef>>
    /\ UNCHANGED <<variant, settings, gameState, performanceHistory, mounted,
                   audio, transportStarted, scheduled, history, trialNumber,
                   historyRef, trialNumberRef, totalMatches, missesBy, dirty,
                   endCalls, lastEnd, ticks, strayTicks, twinHistory,
                   nextIsi>>

----------------------------------------------------------------------------
(* Game: quit *)

\* quitSession(): endSession(false); the click is rendered synchronously, so
\* the game component unmounts at the end of the handler
quitSession ==
    /\ mounted
    /\ endSession(FALSE)
    /\ Unmounted
    /\ lastOp' = [name |-> "quit", mod |-> "none", accepted |-> FALSE]
    /\ UNCHANGED calVars
    /\ UNCHANGED <<variant, audio, history, trialNumber, score, historyRef,
                   trialNumberRef, scoreRef, respondedTo, totalMatches,
                   missesBy, ticks, twinHistory,
                   nextIsi>>

----------------------------------------------------------------------------

Next ==
    \/ AudioStarted
    \/ Tick
    \/ Render
    \/ \E type \in Modality : handleUserResponse(type)
    \/ quitSession

Spec == Init /\ [][Next]_vars

\* the transport, the promise of Tone.start() and React's scheduler all run
\* what they have pending; the participant is under no obligation
LiveSpec == Spec /\ WF_vars(AudioStarted) /\ WF_vars(Tick) /\ WF_vars(Render)

----------------------------------------------------------------------------
(* Training again.  The end screen's "Train Again" button mounts a new     *)
(* game component.  Tone.Transport is one global timeline: an event that   *)
(* the previous component left on it stays there, and keeps firing the     *)
(* previous component's runTrial, until the next Transport.cancel().  The  *)
(* new component has fresh state and refs, which that runTrial does not    *)
(* reach.  Sessions that were quit are followed here, which leave the      *)
(* settings and the performance history as they were; endCalls, lastEnd    *)
(* and ticks then count for the component that is mounted.                 *)

MaxStrayTicks == 1   \* cap on the events left behind by earlier components

\* the runTrial events on the transport timeline
PendingTicks == strayTicks + (IF scheduled THEN 1 ELSE 0)

\* handleStartTraining() from the end screen, and the mount of NBackGame
TrainAgain ==
    /\ gameState = "Finished"
    /\ ~mounted
    \* the previous component's startAudio has resumed
    /\ audio = "started"
    /\ performanceHistory = <<>>
    /\ PendingTicks <= MaxStrayTicks
    /\ gameState' = "Playing"
    /\ strayTicks' = PendingTicks
    /\ scheduled' = FALSE
    /\ mounted' = TRUE
    /\ audio' = "awaiting"
    /\ history' = <<>>
    /\ trialNumber' = 0
    /\ score' = InitialScore
    /\ historyRef' = <<>>
    /\ trialNumberRef' = 0
    /\ scoreRef' = InitialScore
    /\ respondedTo' = {}
    /\ totalMatches' = InitialTotalMatches
    /\ missesBy' = ZeroByModality
    /\ dirty' = FALSE
    /\ endCalls' = 0
    /\ lastEnd' = NoEnd
    /\ ticks' = 0
    /\ lastOp' = [name |-> "train", mod |-> "none", accepted |-> FALSE]
    /\ UNCHANGED <<variant, settings, performanceHistory, transportStarted,
                   twinHistory,
                   nextIsi>>
    /\ UNCHANGED calVars

TrainNext ==
    \/ AudioStarted
    \/ Tick
    \/ Render
    \/ \E type \in Modality : handleUserResponse(type)
    \/ quitSession
    \/ TrainAgain

TrainSpec == Init /\ [][TrainNext]_vars

----------------------------------------------------------------------------
(* Lag selection on its own: generateNextEvent is applied to every variable-  *)
(* lag setting up to MaxLagN, the mirrors following at once.                  *)

LagSettings ==
    {c \in [nLevel : 1 .. MaxLagN,
            variableN : {TRUE},
            totalTrials : {MaxLagEvents},
            matchRate : {r[1] : r \in RateConfigs},
            lureRate : {r[2] : r \in RateConfigs},
            feedbackEnabled : {TRUE},
            enabled : {{"audio"}},
            audioThreshold : {AudioThresholdDefault},
            colorThreshold : {ColorThresholdDefault},
            shapeThreshold : {ShapeThresholdDefault}] : TRUE}

LagInit == InitWith(LagSettings)

\* one call of generateNextEvent on the history generated so far
DrawLag ==
    /\ Len(history) < MaxLagEvents
    /\ \E nDraw \in NDraws, draws \in [settings.enabled -> RandVals] :
           /\ history' = Append(history,
                                generateNextEvent(nDraw, draws, trialNumber,
                                                  history))
           /\ totalMatches' = CountMatches(totalMatches, history'[Len(history')])
    /\ trialNumber' = trialNumber + 1
    /\ historyRef' = history'
    /\ trialNumberRef' = trialNumber'
    /\ lastOp' = [name |-> "draw", mod |-> "none", accepted |-> FALSE]
    /\ UNCHANGED calVars
    /\ UNCHANGED <<variant, settings, gameState, performanceHistory, mounted,
                   audio, transportStarted, scheduled, strayTicks, score,
                   scoreRef, respondedTo, missesBy, dirty, endCalls, lastEnd,
                   ticks, twinHistory,
                   nextIsi>>

LagNext == DrawLag

LagSpec == LagInit /\ [][LagNext]_vars

----------------------------------------------------------------------------
(* Calibration.  Two builds of the component are modelled, selected by     *)
(* calVariant:                                                             *)
(*   "A": the converging staircase, src/components/Calibration.tsx:623-888 *)
(*        (four modalities, a fixed budget of trials);                     *)
(*   "B": the ascending-only procedure, Calibration.tsx:2-282, and its     *)
(*        hue-triple build, Calibration.tsx:284-620, whose protocol is the *)
(*        same statement for statement (three modalities, a trial cap).    *)
(*                                                                         *)
(* A click is rendered and its effects are flushed before the next event   *)
(* is handled, so the state variables hold the rendered values.  The step  *)
(* effect runs as a step of its own, RunEffect, after every render that    *)
(* changed one of its dependencies; its cleanup clears the pending         *)
(* timeout.  A timeout callback sees the values its closure captured when  *)
(* the effect that set it ran.  onComplete and onQuit are the App's        *)
(* handlers; both leave GameState.Calibrating, which unmounts the          *)
(* component.  The stimulus values are not part of the model.              *)

CalibrationVariants == {"A", "B"}

\* type Modality of the build
CalModalities ==
    IF calVariant = "A" THEN {"spatial", "audio", "color", "shape"}
    ELSE {"audio", "color", "shape"}

\* the key of CalibrationResult that holds a modality's threshold
ThresholdKey(m) ==
    CASE m = "audio" -> "audioThreshold"
      [] m = "spatial" -> "spatialThreshold"
      [] m = "color" -> "colorThreshold"
      [] m = "shape" -> "shapeThreshold"

\* minDelta of a modality
MinDelta(m) ==
    CASE m = "audio" -> MIN_AUDIO_DELTA
      [] m = "spatial" -> MIN_SPATIAL_DELTA
      [] m = "color" -> MIN_COLOR_DELTA
      [] m = "shape" -> MIN_SHAPE_DELTA

\* the thresholds the settings screen can hand over for a modality: the
\* smallest value its input accepts, the calibration minimum, and a value
\* well above both
ThresholdInputs(m) ==
    CASE m = "audio" -> {AudioInputMin, MIN_AUDIO_DELTA, AudioThresholdDefault}
      [] m = "spatial" ->
            {SpatialInputMin, MIN_SPATIAL_DELTA, SpatialThresholdTypical}
      [] m = "color" -> {ColorInputMin, MIN_COLOR_DELTA, ColorThresholdDefault}
      [] m = "shape" -> {ShapeInputMin, ShapeThresholdDefault}

\* the threshold of a modality that was never entered by hand
UsualThreshold(m) ==
    CASE m = "audio" -> AudioThresholdDefault
      [] m = "spatial" -> SpatialThresholdTypical
      [] m = "color" -> ColorThresholdDefault
      [] m = "shape" -> ShapeThresholdDefault

\* the settings a calibration starts from: one modality enabled, its
\* threshold any of the inputs, the other thresholds at their usual values
CalSettingsConfigs ==
    {c \in [enabled : {{m} : m \in Modality},
            audioThreshold : ThresholdInputs("audio"),
            spatialThreshold : ThresholdInputs("spatial"),
            colorThreshold : ThresholdInputs("color"),
            shapeThreshold : ThresholdInputs("shape")] :
        \A m \in Modality \ c.enabled : c[ThresholdKey(m)] = UsualThreshold(m)}

\* whether every threshold of the settings is the usual one
UsualThresholds(st) ==
    \A m \in Modality : st[ThresholdKey(m)] = UsualThreshold(m)

\* faulty variant: the working map starts from the minimum deltas
InitialThresholdsAtMinimum(st) ==
    [k \in {ThresholdKey(m) : m \in CalModalities} |->
        MinDelta(CHOOSE m \in CalModalities : ThresholdKey(m) = k)]

\* useRef<CalibrationResult>({...}): the thresholds of the settings prop
InitialThresholds(st) ==
    [k \in {ThresholdKey(m) : m \in CalModalities} |-> st[k]]

\* the game component is not on screen
GameIdle ==
    /\ variant = 1
    /\ performanceHistory = <<>>
    /\ mounted = FALSE
    /\ audio = "awaiting"
    /\ transportStarted = FALSE
    /\ scheduled = FALSE
    /\ strayTicks = 0
    /\ history = <<>>
    /\ twinHistory = <<>>
    /\ nextIsi = 0
    /\ trialNumber = 0
    /\ score = InitialScore
    /\ historyRef = <<>>
    /\ trialNumberRef = 0
    /\ scoreRef = InitialScore
    /\ respondedTo = {}
    /\ totalMatches = InitialTotalMatches
    /\ missesBy = ZeroByModality
    /\ dirty = FALSE
    /\ endCalls = 0
    /\ lastEnd = NoEnd
    /\ ticks = 0
    /\ lastOp = [name |-> "init", mod |-> "none", accepted |-> FALSE]

\* the App has just mounted the Calibration component
\* (GameState.Calibrating); its mount effects have run
CalInit ==
    /\ GameIdle
    /\ calVariant \in CalibrationVariants
    /\ settings \in CalSettingsConfigs
    /\ settings.enabled \subseteq CalModalities
    /\ gameState = "Calibrating"
    \* the pre-game calibration belongs to calibrationEnabled, under which
    \* the settings screen shows no manual threshold inputs
    /\ isCalibratingForGame \in {b \in BOOLEAN : b => UsualThresholds(settings)}
    /\ calMounted = TRUE
    /\ mode = "selection"
    /\ trialCount = 0
    /\ trialStep = "stimulus"
    /\ feedback = "none"
    /\ thresholdsRef = InitialThresholds(settings)
    /\ trialTimeout = NoTimeout
    /\ effectDue = FALSE
    /\ completeCalls = 0
    /\ lastComplete = <<>>
    /\ responses = 0
    /\ incorrects = 0
    /\ lastAnswer = "none"
    /\ calOp = NoOp

(* App: the calibration callbacks *)

\* faulty variant: the unmount leaves the pending timeout set
CalUnmountedKeepsTimeout ==
    /\ calMounted' = FALSE
    /\ trialTimeout' = trialTimeout
    /\ effectDue' = FALSE

\* the component unmounts: the cleanups clear the pending timeout
CalUnmounted ==
    /\ calMounted' = FALSE
    /\ trialTimeout' = NoTimeout
    /\ effectDue' = FALSE

\* handleCalibrationComplete(result): setSettings(prev => ({...prev, ...result}))
\* and the change of GameState, which unmounts the component
handleCalibrationComplete(result) ==
    /\ settings' = [k \in DOMAIN settings |->
                       IF k \in DOMAIN result THEN result[k] ELSE settings[k]]
    /\ gameState' = IF isCalibratingForGame THEN "Playing" ELSE "Start"
    /\ isCalibratingForGame' = FALSE
    /\ CalUnmounted

\* onComplete(thresholdsRef.current); setMode('selection')
onComplete ==
    /\ completeCalls' = completeCalls + 1
    /\ lastComplete' = thresholdsRef
    /\ handleCalibrationComplete(thresholdsRef)
    /\ mode' = "selection"

\* handleCalibrationQuit(), from the selection menu's "Finish" button
handleCalibrationQuit ==
    /\ calMounted
    /\ ~effectDue
    /\ mode = "selection"
    /\ isCalibratingForGame' = FALSE
    /\ gameState' = "Start"
    /\ CalUnmounted
    /\ calOp' = [name |-> "quit", same |-> FALSE, accepted |-> FALSE]
    /\ UNCHANGED <<calVariant, settings, mode, trialCount, trialStep, feedback,
                   thresholdsRef, completeCalls, lastComplete, responses,
                   incorrects, lastAnswer>>
    /\ UNCHANGED gameVars

----------------------------------------------------------------------------
(* Calibration: the step effect and its timeouts *)

\* faulty variant: the masking stimulus is left out
NextStepSkipsNoise(step) ==
    CASE step = "stimulus" -> "isi1"
      [] step = "isi1" -> "lure"
      [] step = "noise" -> "isi2"
      [] step = "isi2" -> "lure"
      [] step = "lure" -> "response"

\* the step each timed step hands over to
NextStep(step) ==
    CASE step = "stimulus" -> "isi1"
      [] step = "isi1" -> "noise"
      [] step = "noise" -> "isi2"
      [] step = "isi2" -> "lure"
      [] step = "lure" -> "response"

\* whether feedback is in the dependency array of runTrialStep, so that a
\* render that changes it makes a new runTrialStep and re-runs the effect
FeedbackIsDependency == calVariant = "B"

\* the timeout runTrialStep sets for the rendered step; the callback of the
\* feedback step closes over the rendered trialCount and, in build B, over
\* the rendered feedback (wasCorrect = feedback === 'correct')
TimeoutOf(step) ==
    CASE step = "response" -> NoTimeout
      [] step = "feedback" ->
            [kind |-> "feedback", next |-> "none",
             wasCorrect |-> calVariant = "B" /\ feedback = "correct",
             nextTrialCount |-> trialCount + 1]
      [] OTHER ->
            [kind |-> "step", next |-> NextStep(step), wasCorrect |-> FALSE,
             nextTrialCount |-> 0]

\* runTrialStep(): setFeedback(null), then the switch on trialStep
runTrialStep ==
    /\ feedback' = "none"
    /\ trialTimeout' = TimeoutOf(trialStep)
    /\ effectDue' = (FeedbackIsDependency /\ feedback # "none")

\* the step effect: the cleanup of its previous run (clearTimeout), then
\* runTrialStep() unless the selection menu is shown
RunEffect ==
    /\ calMounted
    /\ effectDue
    /\ IF mode # "selection"
       THEN runTrialStep
       ELSE /\ trialTimeout' = NoTimeout
            /\ effectDue' = FALSE
            /\ UNCHANGED feedback
    /\ calOp' = [name |-> "effect", same |-> FALSE, accepted |-> FALSE]
    /\ UNCHANGED <<calVariant, settings, gameState, isCalibratingForGame,
                   calMounted, mode, trialCount, trialStep, thresholdsRef,
                   completeCalls, lastComplete, responses, incorrects,
                   lastAnswer>>
    /\ UNCHANGED gameVars

\* faulty variant: the bound is compared with > instead of >=
BudgetSpentLate(nextTrialCount) ==
    IF calVariant = "B"
    THEN nextTrialCount > MAX_CALIBRATION_TRIALS
    ELSE nextTrialCount > TRIALS_PER_CALIBRATION

\* faulty variant: the run ends one trial early
BudgetSpentEarly(nextTrialCount) ==
    IF calVariant = "B"
    THEN nextTrialCount + 1 >= MAX_CALIBRATION_TRIALS
    ELSE nextTrialCount + 1 >= TRIALS_PER_CALIBRATION

\* the trial cap (B) or the trial budget (A) is reached
BudgetSpent(nextTrialCount) ==
    IF calVariant = "B"
    THEN nextTrialCount >= MAX_CALIBRATION_TRIALS
    ELSE nextTrialCount >= TRIALS_PER_CALIBRATION

\* the callback of the feedback step's timeout decides to end the run
RunEnds(t) == t.wasCorrect \/ BudgetSpent(t.nextTrialCount)

\* the pending timeout fires; the effect of the render that set it has run.
\* A timeout that was not cleared fires whether or not the component is
\* still mounted.
TimerFires ==
    /\ ~effectDue
    /\ trialTimeout.kind # "none"
    /\ calOp' = [name |-> "timer", same |-> FALSE, accepted |-> FALSE]
    /\ IF trialTimeout.kind = "step"
       THEN /\ trialStep' = trialTimeout.next
            /\ trialTimeout' = NoTimeout
            /\ effectDue' = TRUE
            /\ UNCHANGED <<settings, gameState, isCalibratingForGame,
                           calMounted, mode, trialCount, completeCalls,
                           lastComplete>>
       ELSE IF RunEnds(trialTimeout)
       THEN /\ onComplete
            /\ UNCHANGED <<trialCount, trialStep>>
       ELSE /\ trialCount' = trialTimeout.nextTrialCount
            /\ trialStep' = "stimulus"
            /\ trialTimeout' = NoTimeout
            /\ effectDue' = TRUE
            /\ UNCHANGED <<settings, gameState, isCalibratingForGame,
                           calMounted, mode, completeCalls, lastComplete>>
    /\ UNCHANGED <<calVariant, feedback, thresholdsRef, responses, incorrects,
                   lastAnswer>>
    /\ UNCHANGED gameVars

----------------------------------------------------------------------------
(* Calibration: the click handlers *)

\* faulty variant: a step of 1.5 instead of 1.25
IncorrectStepUpByHalf(x) == x + x \div 2

\* threshold * INCORRECT_STEP_UP_FACTOR (1.25), rounded down to the unit
IncorrectStepUp(x) == x + x \div 4

\* threshold * CORRECT_STEP_DOWN_FACTOR (0.90), rounded down to the unit
CorrectStepDown(x) == (x * 9) \div 10

\* the tested threshold after a response: build A steps down to no less than
\* minDelta when correct and up when incorrect; build B only steps up
StaircaseUpdate(x, m, wasCorrect) ==
    IF wasCorrect
    THEN IF calVariant = "A" THEN Max(MinDelta(m), CorrectStepDown(x)) ELSE x
    ELSE IncorrectStepUp(x)

\* faulty variant: the trial step is not checked
ResponseAllowedInAnyStep == mode # "selection"

\* the handler does not return at once
ResponseAllowed == mode # "selection" /\ trialStep = "response"

\* wasCorrect = !userChoseSame
WasCorrect(userChoseSame) == ~userChoseSame

\* handleResponse(userChoseSame)
handleResponse(userChoseSame) ==
    /\ calMounted
    /\ ~effectDue
    /\ calOp' = [name |-> "respond",
                 same |-> ResponseAllowed /\ userChoseSame,
                 accepted |-> ResponseAllowed]
    /\ IF ResponseAllowed
       THEN LET wasCorrect == WasCorrect(userChoseSame)
                key == ThresholdKey(mode)
            IN /\ feedback' = IF wasCorrect THEN "correct" ELSE "incorrect"
               /\ thresholdsRef' =
                     [thresholdsRef EXCEPT
                         ![key] = StaircaseUpdate(@, mode, wasCorrect)]
               /\ trialStep' = "feedback"
               /\ effectDue' = TRUE
               /\ responses' = responses + 1
               /\ incorrects' = IF wasCorrect THEN incorrects ELSE incorrects + 1
               /\ lastAnswer' = IF userChoseSame THEN "same" ELSE "different"
       ELSE UNCHANGED <<feedback, thresholdsRef, trialStep, effectDue,
                        responses, incorrects, lastAnswer>>
    /\ UNCHANGED <<calVariant, settings, gameState, isCalibratingForGame,
                   calMounted, mode, trialCount, trialTimeout, completeCalls,
                   lastComplete>>
    /\ UNCHANGED gameVars

\* the working threshold a run of the modality starts from: build B resets
\* it to the modality's minimum, build A keeps the current one
StartValue(m) ==
    IF calVariant = "B" THEN MinDelta(m) ELSE thresholdsRef[ThresholdKey(m)]

\* startModalityCalibration(modality), from the selection menu's button of
\* an enabled modality
startModalityCalibration(m) ==
    /\ calMounted
    /\ ~effectDue
    /\ mode = "selection"
    /\ m \in settings.enabled
    /\ thresholdsRef' = [thresholdsRef EXCEPT ![ThresholdKey(m)] = StartValue(m)]
    /\ trialCount' = 0
    /\ trialStep' = "stimulus"
    /\ mode' = m
    /\ effectDue' = TRUE
    /\ calOp' = [name |-> "start", same |-> FALSE, accepted |-> FALSE]
    /\ UNCHANGED <<calVariant, settings, gameState, isCalibratingForGame,
                   calMounted, feedback, trialTimeout, completeCalls,
                   lastComplete, responses, incorrects, lastAnswer>>
    /\ UNCHANGED gameVars

\* handleEndCalibrationRun(), from the "End & Return to Menu" button
handleEndCalibrationRun ==
    /\ calMounted
    /\ ~effectDue
    /\ mode # "selection"
    /\ onComplete
    /\ calOp' = [name |-> "end", same |-> FALSE, accepted |-> FALSE]
    /\ UNCHANGED <<calVariant, trialCount, trialStep, feedback, thresholdsRef,
                   responses, incorrects, lastAnswer>>
    /\ UNCHANGED gameVars

----------------------------------------------------------------------------

CalNext ==
    \/ RunEffect
    \/ TimerFires
    \/ \E m \in Modality : startModalityCalibration(m)
    \/ \E userChoseSame \in BOOLEAN : handleResponse(userChoseSame)
    \/ handleEndCalibrationRun
    \/ handleCalibrationQuit

CalSpec == CalInit /\ [][CalNext]_vars

\* the participant answers the probe that is waiting for a response
Answering ==
    \E userChoseSame \in BOOLEAN :
        ResponseAllowed /\ handleResponse(userChoseSame)

\* React runs the effects it has pending and the browser fires the timeouts
\* that are set; the participant answers every probe
CalLiveSpec ==
    CalSpec /\ WF_vars(RunEffect) /\ WF_vars(TimerFires) /\ WF_vars(Answering)

----------------------------------------------------------------------------
(* The application around the two components: the screens of src/App.tsx,  *)
(* the settings screen of src/components/Settings.tsx and the session-end  *)
(* and calibration callbacks, over several sessions.  The game and the     *)
(* calibration run are seen from the App: each hands its outcome to the    *)
(* App's callback, and the outcome is drawn from what the component can    *)
(* report.  `variant` selects the build of the App (the accuracy formula   *)
(* of App.tsx:63 or of App.tsx:251-259).                                   *)

MaxSessions == 2       \* sessions ended in the application specification
MaxAppTrials == 2      \* largest totalTrials the settings screen is given
MaxCalibrations == 1   \* calibration runs in the application specification

\* the game's variables while only its outcome matters
appGameVars == <<mounted, audio, transportStarted, scheduled, strayTicks,
                 history, twinHistory, nextIsi, trialNumber, score, historyRef,
                 trialNumberRef, scoreRef, respondedTo, totalMatches, missesBy,
                 dirty, ticks>>

\* the calibration's variables the App's handlers do not touch
appCalVars == <<calVariant, mode, trialCount, trialStep, feedback, responses,
                incorrects, lastAnswer, calOp>>

\* DEFAULT_SETTINGS, as far as the model keeps settings
DefaultSettings ==
    [nLevel |-> 1,
     variableN |-> FALSE,
     totalTrials |-> MaxAppTrials,
     matchRate |-> 1,
     lureRate |-> 1,
     feedbackEnabled |-> TRUE,
     calibrationEnabled |-> FALSE,
     enabled |-> {"spatial", "audio"},
     audioThreshold |-> AudioThresholdDefault,
     spatialThreshold |-> SpatialThresholdTypical,
     colorThreshold |-> ColorThresholdDefault,
     shapeThreshold |-> ShapeThresholdDefault]

\* the application has just started: the main menu is shown
AppInit ==
    /\ variant \in {1, 2}
    /\ settings = DefaultSettings
    /\ gameState = "Start"
    /\ performanceHistory = <<>>
    /\ mounted = FALSE
    /\ audio = "awaiting"
    /\ transportStarted = FALSE
    /\ scheduled = FALSE
    /\ strayTicks = 0
    /\ history = <<>>
    /\ twinHistory = <<>>
    /\ nextIsi = 0
    /\ trialNumber = 0
    /\ score = InitialScore
    /\ historyRef = <<>>
    /\ trialNumberRef = 0
    /\ scoreRef = InitialScore
    /\ respondedTo = {}
    /\ totalMatches = InitialTotalMatches
    /\ missesBy = ZeroByModality
    /\ dirty = FALSE
    /\ endCalls = 0
    /\ lastEnd = NoEnd
    /\ ticks = 0
    /\ lastOp = [name |-> "init", mod |-> "none", accepted |-> FALSE]
    /\ calVariant \in CalibrationVariants
    /\ isCalibratingForGame = FALSE
    /\ calMounted = FALSE
    /\ mode = "selection"
    /\ trialCount = 0
    /\ trialStep = "stimulus"
    /\ feedback = "none"
    /\ thresholdsRef = <<>>
    /\ trialTimeout = NoTimeout
    /\ effectDue = FALSE
    /\ completeCalls = 0
    /\ lastComplete = <<>>
    /\ responses = 0
    /\ incorrects = 0
    /\ lastAnswer = "none"
    /\ calOp = NoOp

\* what an App-level step records about itself
AppOp(name, accepted) == [name |-> name, mod |-> "none", accepted |-> accepted]

(* Settings screen *)

\* the "Settings" button of the main menu
OpenSettings ==
    /\ gameState = "Start"
    /\ gameState' = "Settings"
    /\ lastOp' = AppOp("settings", FALSE)
    /\ UNCHANGED <<variant, settings, performanceHistory, endCalls, lastEnd>>
    /\ UNCHANGED appGameVars
    /\ UNCHANGED calVars

\* the local settings the screen can hold when "Save & Back" is clicked:
\* handleChange stores the checkboxes and Number(value) of the totalTrials
\* input as they are (an emptied input gives 0); the modalities are left
\* as they are or all switched off
LocalSettingsOf(st) ==
    {[st EXCEPT !.enabled = e, !.totalTrials = t, !.calibrationEnabled = c] :
        e \in {{}, st.enabled},
        t \in {0, MaxAppTrials},
        c \in BOOLEAN}

\* faulty variant: every configuration is saved
SaveAllowedAlways(localSettings) == TRUE

\* handleSave does not return at the alert
SaveAllowed(localSettings) == localSettings.enabled # {}

\* handleSave(): onSave(localSettings); onBack()
handleSave(localSettings) ==
    /\ gameState = "Settings"
    /\ lastOp' = AppOp("save", SaveAllowed(localSettings))
    /\ IF SaveAllowed(localSettings)
       THEN /\ settings' = localSettings
            /\ gameState' = "Start"
       ELSE UNCHANGED <<settings, gameState>>
    /\ UNCHANGED <<variant, performanceHistory, endCalls, lastEnd>>
    /\ UNCHANGED appGameVars
    /\ UNCHANGED calVars

\* the "Cancel" button of the settings screen and the "Main Menu" button
\* of the end screen: setGameState(GameState.Start)
BackToMenu ==
    /\ gameState \in {"Settings", "Finished"}
    /\ gameState' = "Start"
    /\ lastOp' = AppOp("menu", FALSE)
    /\ UNCHANGED <<variant, settings, performanceHistory, endCalls, lastEnd>>
    /\ UNCHANGED appGameVars
    /\ UNCHANGED calVars

(* Starting a session or a calibration *)

\* GameState.Calibrating mounts the Calibration component
MountCalibration ==
    /\ gameState' = "Calibrating"
    /\ calMounted' = TRUE
    /\ thresholdsRef' = InitialThresholds(settings)

\* handleStartTraining(), from "Start Training" and "Train Again"
handleStartTraining ==
    /\ gameState \in {"Start", "Finished"}
    /\ endCalls < MaxSessions
    /\ lastOp' = AppOp("train", FALSE)
    /\ IF settings.calibrationEnabled
       THEN /\ isCalibratingForGame' = TRUE
            /\ MountCalibration
       ELSE /\ gameState' = "Playing"
            /\ UNCHANGED <<isCalibratingForGame, calMounted, thresholdsRef>>
    /\ UNCHANGED <<variant, settings, performanceHistory, endCalls, lastEnd,
                   trialTimeout, effectDue, completeCalls, lastComplete>>
    /\ UNCHANGED appGameVars
    /\ UNCHANGED appCalVars

\* handleStartCalibration(), from the "Calibrate" button
handleStartCalibration ==
    /\ gameState = "Start"
    /\ completeCalls < MaxCalibrations
    /\ lastOp' = AppOp("calibrate", FALSE)
    /\ isCalibratingForGame' = FALSE
    /\ MountCalibration
    /\ UNCHANGED <<variant, settings, performanceHistory, endCalls, lastEnd,
                   trialTimeout, effectDue, completeCalls, lastComplete>>
    /\ UNCHANGED appGameVars
    /\ UNCHANGED appCalVars

(* The outcome of a calibration run *)

\* the thresholds a run of the modality can hand to onComplete: build B
\* starts from the minimum and steps up, build A steps from the current one
RunResults(m) ==
    LET x == thresholdsRef[ThresholdKey(m)]
    IN IF calVariant = "B"
       THEN {MinDelta(m), IncorrectStepUp(MinDelta(m))}
       ELSE {StaircaseUpdate(x, m, TRUE), StaircaseUpdate(x, m, FALSE)}

\* a calibration run ends: onComplete(thresholdsRef.current)
CalibrationReturns ==
    /\ calMounted
    /\ completeCalls < MaxCalibrations
    /\ \E m \in settings.enabled \cap CalModalities :
          \E x \in RunResults(m) :
              LET result == [thresholdsRef EXCEPT ![ThresholdKey(m)] = x]
              IN /\ thresholdsRef' = result
                 /\ lastComplete' = result
                 /\ handleCalibrationComplete(result)
    /\ completeCalls' = completeCalls + 1
    /\ lastOp' = AppOp("calibrated", FALSE)
    /\ UNCHANGED <<variant, performanceHistory, endCalls, lastEnd>>
    /\ UNCHANGED appGameVars
    /\ UNCHANGED appCalVars

(* The outcome of a session *)

\* what a session on the audio modality can report when at most its last
\* event is past the ramp-up: the event is a match or not and was answered
\* or not; the miss of a last event is counted after the score is emitted
SessionOutcomes ==
    LET eligible == IF settings.totalTrials > settings.nLevel THEN 1 ELSE 0
    IN {o \in [matches : 0 .. eligible, hits : 0 .. eligible,
               misses : {0}, falseAlarms : 0 .. eligible] :
           /\ o.hits <= o.matches
           /\ o.matches + o.falseAlarms <= eligible}

OnAudio(k) == [ZeroByModality EXCEPT !["audio"] = k]

\* scoreRef.current of the outcome
OutcomeScore(o) ==
    [hits |-> IF variant = 1 THEN o.hits ELSE OnAudio(o.hits),
     misses |-> o.misses,
     falseAlarms |-> OnAudio(o.falseAlarms)]

\* totalMatchesRef.current of the outcome
OutcomeMatches(o) == IF variant = 1 THEN o.matches ELSE OnAudio(o.matches)

\* the game calls onGameEnd(score, totalMatches, completed)
SessionEnds ==
    /\ gameState = "Playing"
    /\ \E o \in SessionOutcomes, completed \in BOOLEAN :
          /\ lastEnd' = [score |-> OutcomeScore(o),
                         totalMatches |-> OutcomeMatches(o),
                         completed |-> completed]
          /\ handleGameEnd(OutcomeScore(o), OutcomeMatches(o), completed)
    /\ endCalls' = endCalls + 1
    /\ lastOp' = AppOp("end", FALSE)
    /\ UNCHANGED variant
    /\ UNCHANGED appGameVars
    /\ UNCHANGED calVars

AppNext ==
    \/ OpenSettings
    \/ \E localSettings \in LocalSettingsOf(settings) : handleSave(localSettings)
    \/ BackToMenu
    \/ handleStartTraining
    \/ handleStartCalibration
    \/ CalibrationReturns
    \/ handleCalibrationQuit
    \/ SessionEnds

AppSpec == AppInit /\ [][AppNext]_vars

----------------------------------------------------------------------------
(* Stimulus values.  The events of the session specifications carry the    *)
(* labels of generateNextEvent only; here they carry the stimulus values   *)
(* as well.  A value is a whole number of ten-thousandths of its unit      *)
(* (Hz, hue degrees, radius), rounded down.  An audio lure multiplies the  *)
(* target's frequency by 2^(+-audioThreshold/1200): a frequency is kept as *)
(* its random base and the number of such steps applied to it.  A second   *)
(* session, twinHistory, is generated from the same random values as the   *)
(* first; the first reads the mirrors as runTrial does, the second its own *)
(* history.                                                                *)

MaxGenEvents == 3       \* events generated with one modality enabled
MaxGenDualEvents == 2   \* events generated with two modalities enabled, or
                        \* with shapes of MaxShapeVertices vertices
MaxGenN == 2            \* nLevel of the variable-lag setting
MaxGrid == 2            \* rows and columns of the larger grids
MaxShapeVertices == 2   \* settings.shapeVertices

HueCircle == 3600000    \* 360 degrees
\* thresholds typed into the manual inputs of the settings screen, which have
\* a min attribute and no max: 400 hue degrees, 0.95 of the radius
ColorInputLarge == 4000000
ShapeInputLarge == 9500
MinRadius == 1000       \* Math.max(0.1, ...)
MaxRadius == 10000      \* Math.min(1.0, ...)

Min(a, b) == IF a <= b THEN a ELSE b

\* Math.floor(Math.random() * k), the random value being draw / RandDen
FloorOf(draw, k) == (draw * k) \div RandDen

\* Math.random() < 0.5 ? 1 : -1
SignOf(draw) == IF 2 * draw < RandDen THEN 1 ELSE -1

\* the field of an event that holds the stimulus of a modality
Field(m) == IF m = "color" /\ variant = 2 THEN "hues" ELSE m

\* generateRandomHues(): three hues around a base, sorted
generateRandomHues(baseDraw, intervalDraw) ==
    LET baseHue == FloorOf(baseDraw, HueCircle)
        interval == 150000 + FloorOf(intervalDraw, 200000)
    IN SortSeq(<<(baseHue - interval + HueCircle) % HueCircle,
                 baseHue,
                 (baseHue + interval) % HueCircle>>,
               LAMBDA a, b : a < b)

\* generateBaseShape(numVertices): one radius in [0.6, 1.0) per vertex
generateBaseShape(radiusDraws) ==
    [i \in 1 .. Len(radiusDraws) |-> 6000 + FloorOf(radiusDraws[i], 4000)]

\* the values newEvent is constructed with, by the field that holds them
RandomValues(d) ==
    [f \in {Field(m) : m \in Modality} |->
        CASE f = "spatial" -> [row |-> FloorOf(d.row, settings.gridRows),
                               col |-> FloorOf(d.col, settings.gridCols)]
          [] f = "audio" -> [base |-> 2000000 + FloorOf(d.audio, 6000000),
                             steps |-> 0]
          [] f = "color" -> FloorOf(d.hue, HueCircle)
          [] f = "hues" -> generateRandomHues(d.hue, d.interval)
          [] f = "shape" -> generateBaseShape(d.radii)]

\* possibleLures: the four neighbours of the cell that are inside the grid
possibleLures(cell) ==
    SelectSeq(<<[row |-> cell.row - 1, col |-> cell.col],
                [row |-> cell.row + 1, col |-> cell.col],
                [row |-> cell.row, col |-> cell.col - 1],
                [row |-> cell.row, col |-> cell.col + 1]>>,
              LAMBDA p : /\ p.row >= 0 /\ p.row < settings.gridRows
                         /\ p.col >= 0 /\ p.col < settings.gridCols)

\* faulty variant: the neighbours are not filtered
SpatialLureUnfiltered(target, random, pickDraw) ==
    <<[row |-> target.row - 1, col |-> target.col],
      [row |-> target.row + 1, col |-> target.col],
      [row |-> target.row, col |-> target.col - 1],
      [row |-> target.row, col |-> target.col + 1]>>[FloorOf(pickDraw, 4) + 1]

\* case 'spatial': a neighbour of the target's cell, or the random cell when
\* there is none
SpatialLure(target, random, pickDraw) ==
    IF Len(possibleLures(target)) > 0
    THEN possibleLures(target)[FloorOf(pickDraw, Len(possibleLures(target))) + 1]
    ELSE random

\* case 'audio': one step up or down from the target's frequency
AudioLure(target, signDraw) ==
    [target EXCEPT !.steps = @ + SignOf(signDraw)]

\* a % b of the source language, b > 0: the remainder has the sign of a
Rem(a, b) == IF a >= 0 THEN a % b ELSE 0 - ((0 - a) % b)

\* case 'color', one hue: the target's hue shifted by the threshold
ColorLure(target, signDraw) ==
    Rem(target + SignOf(signDraw) * settings.colorThreshold + HueCircle,
        HueCircle)

\* case 'color', three hues: two of the target's hues are shifted in
\* opposite directions; the result is not sorted again
HuesLure(target, idx1Draw, idx2Draw, signDraw) ==
    LET idx1 == FloorOf(idx1Draw, 3) + 1
        indices == SelectSeq(<<1, 2, 3>>, LAMBDA i : i # idx1)
        idx2 == indices[FloorOf(idx2Draw, 2) + 1]
        shiftAmount == settings.colorThreshold * SignOf(signDraw)
    IN [i \in 1 .. 3 |->
           IF i = idx1 THEN Rem(target[i] + shiftAmount + HueCircle, HueCircle)
           ELSE IF i = idx2
           THEN Rem(target[i] - shiftAmount + HueCircle, HueCircle)
           ELSE target[i]]

\* faulty variant: the moved radius is not clamped
ShapeLureUnclamped(target, vDraw, signDraw) ==
    [target EXCEPT ![FloorOf(vDraw, Len(target)) + 1] =
        @ + SignOf(signDraw) * settings.shapeThreshold]

\* case 'shape': one vertex of the target's shape is moved, within
\* [0.1, 1.0]
ShapeLure(target, vDraw, signDraw) ==
    [target EXCEPT ![FloorOf(vDraw, Len(target)) + 1] =
        Max(MinRadius,
            Min(MaxRadius, @ + SignOf(signDraw) * settings.shapeThreshold))]

\* the switch of the lure branch
LureValue(m, targetEvent, random, d) ==
    CASE m = "spatial" -> SpatialLure(targetEvent.spatial, random.spatial, d.pick)
      [] m = "audio" -> AudioLure(targetEvent.audio, d.audioSign)
      [] m = "color" /\ variant = 1 -> ColorLure(targetEvent.color, d.colorSign)
      [] m = "color" /\ variant = 2 ->
             HuesLure(targetEvent.hues, d.idx1, d.idx2, d.colorSign)
      [] m = "shape" -> ShapeLure(targetEvent.shape, d.vIndex, d.shapeSign)

\* faulty variant: a match keeps the random value
MatchValueRandom(targetValue, randomValue) == randomValue

\* the match branch: the target's value, verbatim
MatchValue(targetValue, randomValue) == targetValue

\* newEvent as generateNextEvent returns it, values included; d holds the
\* random values of the call
newEvent(d, tn, hist) ==
    LET labels == generateNextEvent(d.nDraw, d.rand, tn, hist)
        isReadyForMatch ==
            IsReadyForMatch(tn, labels.n) /\ HasTarget(tn, labels.n, hist)
        targetEvent == hist[tn - labels.n + 1]
        random == RandomValues(d)
        Branch(m) ==
            IF isReadyForMatch /\ m \in settings.enabled
            THEN DrawBranch(d.rand[m]) ELSE "random"
        values ==
            [f \in {Field(m) : m \in Modality} |->
                LET m == CHOOSE x \in Modality : Field(x) = f
                IN CASE Branch(m) = "match" ->
                            MatchValue(targetEvent[f], random[f])
                     [] Branch(m) = "lure" ->
                            LureValue(m, targetEvent, random, d)
                     [] OTHER -> random[f]]
    IN labels @@ values

\* the settings of the stimulus specification: <<enabled, gridRows,
\* gridCols, nLevel, variableN, totalTrials, shapeVertices>>
GenConfigs ==
    {<<{"spatial"}, 1, 1, 1, FALSE, MaxGenEvents, 1>>,
     <<{"spatial"}, MaxGrid, MaxGrid, 1, FALSE, MaxGenEvents, 1>>,
     <<{"spatial", "audio"}, 1, MaxGrid, 1, FALSE, MaxGenDualEvents, 1>>,
     <<{"audio", "color"}, 1, 1, 1, FALSE, MaxGenDualEvents, 1>>,
     <<{"color", "shape"}, 1, 1, 1, FALSE, MaxGenDualEvents, 1>>,
     <<{"shape"}, 1, 1, 1, FALSE, MaxGenDualEvents, MaxShapeVertices>>,
     <<{"audio"}, 1, 1, MaxGenN, TRUE, MaxGenEvents, 1>>}

\* <<colorThreshold, shapeThreshold>>: the defaults, and large values where
\* shape is enabled
GenThresholds(enabled) ==
    {<<ColorThresholdDefault, ShapeThresholdDefault>>}
        \cup IF "shape" \in enabled
             THEN {<<ColorInputLarge, ShapeInputLarge>>}
             ELSE {}

GenSettingsOf(c) ==
    {[nLevel |-> c[4],
      variableN |-> c[5],
      totalTrials |-> c[6],
      matchRate |-> r[1],
      lureRate |-> r[2],
      feedbackEnabled |-> TRUE,
      enabled |-> c[1],
      gridRows |-> c[2],
      gridCols |-> c[3],
      shapeVertices |-> c[7],
      audioThreshold |-> AudioThresholdDefault,
      colorThreshold |-> t[1],
      shapeThreshold |-> t[2]] :
        r \in RateConfigs, t \in GenThresholds(c[1])}

GenSettings == UNION {GenSettingsOf(c) : c \in GenConfigs}

GenInit == InitWith(GenSettings)

\* the random values drawn for a stimulus value: the two ends of the range
\* for an enabled modality, the low end for the others
ValueDraws(m) == IF m \in settings.enabled THEN {0, RandDen - 1} ELSE {0}

\* the random values drawn for a direction: one on each side of 0.5
SignDraws == {0, RandDen - 1}

\* the random values one call of generateNextEvent receives; a value the
\* call does not draw is 0
DrawsOf(tn, hist) ==
    UNION {
      LET n == SelectN(nDraw, tn, hist)
          ready == IsReadyForMatch(tn, n) /\ HasTarget(tn, n, hist)
      IN UNION {
           LET Lure(m) == ready /\ m \in settings.enabled
                              /\ DrawBranch(rand[m]) = "lure"
               Drawn(cond, draws) == IF cond THEN draws ELSE {0}
           IN [nDraw : {nDraw},
               rand : {rand},
               row : ValueDraws("spatial"),
               col : ValueDraws("spatial"),
               audio : ValueDraws("audio"),
               hue : ValueDraws("color"),
               interval : Drawn(variant = 2, ValueDraws("color")),
               radii : [1 .. settings.shapeVertices -> ValueDraws("shape")],
               pick : Drawn(/\ Lure("spatial")
                            /\ Len(possibleLures(hist[tn - n + 1].spatial)) > 0,
                            RandVals),
               audioSign : Drawn(Lure("audio"), SignDraws),
               colorSign : Drawn(Lure("color"), SignDraws),
               idx1 : Drawn(Lure("color") /\ variant = 2, RandVals),
               idx2 : Drawn(Lure("color") /\ variant = 2, SignDraws),
               vIndex : Drawn(Lure("shape"), RandVals),
               shapeSign : Drawn(Lure("shape"), SignDraws)] :
           rand \in IF ready THEN [settings.enabled -> RandVals]
                             ELSE {[m \in settings.enabled |-> 0]}} :
      nDraw \in NDraws}

\* faulty variant: a tick may run before the mirrors have followed
MirrorsFollowedOrNot == TRUE

\* the mirror effects of the previous tick's updates have run
MirrorsFollowed == ~dirty

\* runTrial() before the last trial, with the values of its event: the
\* unanswered matches of the previous event are counted, the event is
\* generated from the mirrors and appended; the second session generates its
\* event from the same random values
GenerateEvent ==
    /\ MirrorsFollowed
    /\ ~SessionOver
    /\ Len(history) < settings.totalTrials
    /\ \E d \in DrawsOf(trialNumberRef, historyRef) :
           /\ history' = Append(history, newEvent(d, trialNumberRef, historyRef))
           /\ twinHistory' = Append(twinHistory,
                                    newEvent(d, Len(twinHistory), twinHistory))
           /\ totalMatches' = CountMatches(totalMatches, history'[Len(history')])
           \* with the random values of the bands and the random cell
           /\ lastOp' = [name |-> "generate", mod |-> "none",
                         accepted |-> FALSE, rand |-> d.rand,
                         random |-> RandomValues(d).spatial]
    /\ trialNumber' = trialNumber + 1
    /\ score' = [score EXCEPT !.misses = @ + Cardinality(UnansweredMatches)]
    /\ missesBy' = [m \in Modality |->
                       IF m \in UnansweredMatches
                       THEN missesBy[m] + 1 ELSE missesBy[m]]
    /\ dirty' = TRUE
    /\ ticks' = ticks + 1
    /\ UNCHANGED calVars
    /\ UNCHANGED <<variant, settings, gameState, performanceHistory, mounted,
                   audio, transportStarted, scheduled, strayTicks, historyRef,
                   trialNumberRef, scoreRef, respondedTo, endCalls, lastEnd,
                   nextIsi>>

GenNext ==
    \/ GenerateEvent
    \/ Render

GenSpec == GenInit /\ [][GenNext]_vars

----------------------------------------------------------------------------
(* The delay before the next tick.  Build 1 puts one repeating event on    *)
(* the transport, with the interval STIMULUS_DURATION_MS + isi; build 2    *)
(* schedules every tick from runTrial, isi varied by the variable-ISI band *)
(* of the settings and raised to stimulusDuration + 100.  Times are whole  *)
(* milliseconds, rounded down.  The Interval input of the settings screen  *)
(* stores Number(value) as it is typed; its min attribute is not enforced  *)
(* by anything, the Save button being no form submission.                  *)

STIMULUS_DURATION_MS == 500
MaxIsiTicks == 2    \* ticks scheduled in the delay specification

\* settings.isi: a value below the input's min, the min, the default, a long
\* one
IsiValues == {50, 500, 2500, 5000}

\* variableIsiMinRange and variableIsiRange
IsiRanges == {0, 500, 3000, 6000}

IsiSettings ==
    [isi : IsiValues,
     variableIsiEnabled : BOOLEAN,
     variableIsiMinRange : IsiRanges,
     variableIsiRange : IsiRanges,
     feedbackEnabled : {TRUE},
     totalTrials : {MaxIsiTicks}]

\* build 1 has no variable ISI; the band is idle while it is disabled
IsiInit ==
    /\ InitWith(IsiSettings)
    /\ (variant = 1 \/ ~settings.variableIsiEnabled) =>
           /\ ~settings.variableIsiEnabled
           /\ settings.variableIsiMinRange = 0
           /\ settings.variableIsiRange = 0

\* how long a stimulus is shown: a constant in build 1, Math.max(350,
\* isi * 0.2) in build 2
stimulusDuration ==
    IF variant = 1 THEN STIMULUS_DURATION_MS
    ELSE Max(350, settings.isi \div 5)

\* nextIsi before the sanity check
VariedIsi(magnitudeDraw, signDraw) ==
    LET maxRange == settings.variableIsiRange
        minRange == settings.variableIsiMinRange
    IN IF ~settings.variableIsiEnabled THEN settings.isi
       ELSE IF minRange < maxRange
       THEN settings.isi
                + (IF 2 * signDraw < RandDen THEN -1 ELSE 1)
                    * (minRange + FloorOf(magnitudeDraw, maxRange - minRange))
       ELSE settings.isi
                + ((2 * magnitudeDraw - RandDen) * maxRange) \div RandDen

\* Math.max(stimulusDuration + 100, nextIsi)
CheckedIsi(isi) == Max(stimulusDuration + 100, isi)

\* scheduleRepeat(runTrial, (STIMULUS_DURATION_MS + isi) / 1000) of startAudio
\* in build 1; the end of runTrial in build 2
ScheduleNextTrial ==
    /\ ticks < MaxIsiTicks
    /\ IF variant = 1
       THEN nextIsi' = STIMULUS_DURATION_MS + settings.isi
       ELSE \E magnitudeDraw \in
                   IF settings.variableIsiEnabled THEN RandVals ELSE {0},
               signDraw \in
                   IF /\ settings.variableIsiEnabled
                      /\ settings.variableIsiMinRange < settings.variableIsiRange
                   THEN SignDraws ELSE {0} :
                nextIsi' = CheckedIsi(VariedIsi(magnitudeDraw, signDraw))
    /\ scheduled' = TRUE
    /\ ticks' = ticks + 1
    /\ lastOp' = [name |-> "schedule", mod |-> "none", accepted |-> FALSE]
    /\ UNCHANGED calVars
    /\ UNCHANGED <<variant, settings, gameState, performanceHistory, mounted,
                   audio, transportStarted, strayTicks, history, twinHistory,
                   trialNumber, score, historyRef, trialNumberRef, scoreRef,
                   respondedTo, totalMatches, missesBy, dirty, endCalls,
                   lastEnd>>

IsiNext == ScheduleNextTrial

IsiSpec == IsiInit /\ [][IsiNext]_vars

----------------------------------------------------------------------------
(* Properties *)

\* the (event, modality) pairs of a history that are true matches
MatchPairs(hist) ==
    {<<i, m>> \in (1 .. Len(hist)) \X Modality : hist[i].isMatch[m]}

\* a response for the modality has just been handled
Responded(op) == op.name = "respond"

\* C1: every (event id, modality) pair accounts for at most one increment of
\* the hit and false-alarm counters taken together: their sum always equals
\* the number of pairs in the responded set, and a response for a pair that
\* is already in the set leaves the whole score as it was.
C1_AtMostOneCreditPerPair ==
    /\ [](TotalHits(score) + TotalFalseAlarms(score) = Cardinality(respondedTo))
    /\ [][(/\ Responded(lastOp')
           /\ Len(historyRef) > 0
           /\ <<LastEvent.id, lastOp'.mod>> \in respondedTo)
          => score' = score]_vars

\* C1 witness: a second response for the same event and modality was ignored
C1_SecondResponseIgnored ==
    /\ Responded(lastOp)
    /\ ~lastOp.accepted
    /\ Len(historyRef) > 0
    /\ <<LastEvent.id, lastOp.mod>> \in respondedTo
    /\ TotalHits(score) + TotalFalseAlarms(score) > 0

\* the session-end callback has reported a completed session
CompletedEmitted == endCalls > 0 /\ lastEnd.completed

\* C2: the score handed to the session-end callback of a completed session
\* counts every true match exactly once: hits + misses equals the number of
\* (event, modality) pairs generated with isMatch = true.
C2_EmittedScoreCoversEveryMatch ==
    CompletedEmitted =>
        TotalHits(lastEnd.score) + lastEnd.score.misses
            = Cardinality(MatchPairs(history))

\* the previous event's unanswered true matches, as a tick finds them
PendingMatches ==
    {m \in settings.enabled :
        LastEvent.isMatch[m] /\ <<LastEvent.id, m>> \notin respondedTo}

\* the step is an execution of runTrial
TickStep == ticks' = ticks + 1

\* C3: a tick that follows an eligible trial adds exactly one miss for each
\* enabled modality whose previous event is an unanswered match, in the same
\* step that generates the next event or ends the session, whatever the
\* feedback setting.
C3_TickResolvesUnansweredMatches ==
    [][(/\ TickStep
        /\ mounted
        /\ trialNumberRef > 0
        /\ trialNumberRef > LastEvent.n)
       => score'.misses = score.misses + Cardinality(PendingMatches)]_vars

\* C4: the session-end callback is invoked at most once in a session.
C4_SessionEndsOnce == endCalls <= 1

\* the participant has quit the session
QuitHappened == endCalls > 0 /\ ~lastEnd.completed

\* C5: after a quit no trial tick runs, no event is appended, no counter
\* changes and no further terminal event is emitted.
C5_NothingRunsAfterQuit ==
    [][QuitHappened =>
          /\ ticks' = ticks
          /\ history' = history
          /\ score' = score
          /\ endCalls' = endCalls]_vars

\* the thresholds of a settings record
Thresholds(st) == <<st.audioThreshold, st.colorThreshold, st.shapeThreshold>>

\* C6: a quit reports completed = false, appends no PerformanceRecord,
\* leaves every threshold unchanged and moves the application to Finished.
C6_QuitRecordsNothing ==
    [][lastOp'.name = "quit" =>
          /\ ~lastEnd'.completed
          /\ endCalls' = endCalls + 1
          /\ performanceHistory' = performanceHistory
          /\ Thresholds(settings') = Thresholds(settings)
          /\ gameState' = "Finished"]_vars

\* C6 witness: the session was quit after 2 of 3 trials
C6_QuitMidSession ==
    /\ lastOp.name = "quit"
    /\ settings.totalTrials = 3
    /\ trialNumber = 2
    /\ gameState = "Finished"
    /\ performanceHistory = <<>>

\* C7: a session that is never quit eventually reports completed = true,
\* responses or none, and whenever completed = true has been reported
\* exactly totalTrials events have been generated.
C7_SessionCompletes ==
    /\ [](CompletedEmitted =>
            /\ Len(history) = settings.totalTrials
            /\ trialNumber = settings.totalTrials)
    /\ <>(QuitHappened \/ CompletedEmitted)

\* C7 witness: a session completed without a single response
C7_CompletedWithoutResponse ==
    /\ CompletedEmitted
    /\ respondedTo = {}
    /\ Len(history) = MaxTrials

\* the events of the history that are still in their ramp-up
RampUpEvents == {i \in 1 .. Len(history) : history[i].id < history[i].n}

\* C8: an event whose id is smaller than its own lag n has isMatch = false
\* for every modality and lureType = 'none', and adds nothing to the match
\* counter: the counter equals the number of true matches among the events
\* that are past their ramp-up.
C8_RampUpNeverMatches ==
    /\ \A i \in RampUpEvents :
          /\ \A m \in Modality : ~history[i].isMatch[m]
          /\ history[i].lureType = "none"
    /\ TotalMatchCount(totalMatches)
          = Cardinality({p \in MatchPairs(history) : p[1] \notin RampUpEvents})

\* C8 witness: the second event of a session is still in its ramp-up while
\* a later event carries a match
C8_RampUpThenMatch ==
    /\ 2 \in RampUpEvents
    /\ \E p \in MatchPairs(history) : p[1] > 2

\* the conditions under which a response for the modality is to be ignored,
\* on the current event as the handler sees it
ToBeIgnored(type) ==
    \/ trialNumberRef = 0
    \/ /\ Len(historyRef) > 0
       /\ \/ trialNumberRef <= LastEvent.n
          \/ <<LastEvent.id, type>> \in respondedTo

\* C9: a response changes neither the score nor the responded set when no
\* trial has been presented yet, when the current event is still in its
\* ramp-up, or when the pair already has a recorded response.
C9_IgnoredResponseChangesNothing ==
    [][(Responded(lastOp') /\ ToBeIgnored(lastOp'.mod))
       => score' = score /\ respondedTo' = respondedTo]_vars

\* C9 witness: a response during the ramp-up of the current event, for a
\* pair that has no recorded response
C9_ResponseInRampUp ==
    /\ Responded(lastOp)
    /\ ~lastOp.accepted
    /\ trialNumberRef > 0
    /\ trialNumberRef <= LastEvent.n
    /\ <<LastEvent.id, lastOp.mod>> \notin respondedTo

\* the score with one more hit for the modality
WithHit(s, type) ==
    IF variant = 1
    THEN [s EXCEPT !.hits = @ + 1]
    ELSE [s EXCEPT !.hits[type] = @ + 1]

\* the score with one more false alarm for the modality
WithFalseAlarm(s, type) == [s EXCEPT !.falseAlarms[type] = @ + 1]

\* C10: an accepted response for m adds one hit (for m) and nothing else when
\* the current event matches in m, one false alarm for m and nothing else
\* when it does not; misses and the other modalities' counters stay.
C10_AcceptedResponseCreditsOneCounter ==
    [][(Responded(lastOp') /\ ~ToBeIgnored(lastOp'.mod))
       => /\ LastEvent.isMatch[lastOp'.mod]
                => score' = WithHit(score, lastOp'.mod)
          /\ ~LastEvent.isMatch[lastOp'.mod]
                => score' = WithFalseAlarm(score, lastOp'.mod)
          /\ respondedTo' = respondedTo \cup {<<LastEvent.id, lastOp'.mod>>}]_vars

\* C10 witness: with two modalities enabled, a false alarm in one after a
\* hit in the other on the same event
C10_HitAndFalseAlarmOnOneEvent ==
    /\ Responded(lastOp)
    /\ lastOp.accepted
    /\ ~LastEvent.isMatch[lastOp.mod]
    /\ \E m \in settings.enabled \ {lastOp.mod} :
          /\ LastEvent.isMatch[m]
          /\ <<LastEvent.id, m>> \in respondedTo
    /\ TotalHits(score) > 0
    /\ score.falseAlarms[lastOp.mod] > 0

\* the events of the history that are eligible for a response
EligibleEvents == {i \in 1 .. Len(history) : history[i].id >= history[i].n}

\* the hits credited for a modality: the modality's own counter, or, where
\* the score has a single hit counter, the answered true matches of it
HitsOf(m) ==
    IF variant = 1
    THEN Cardinality({p \in respondedTo :
                         p[2] = m /\ history[p[1] + 1].isMatch[m]})
    ELSE score.hits[m]

\* C11: for every modality, its hits plus the misses counted for it plus
\* its false alarms never exceed the number of generated events that were
\* eligible for a response (event id >= its lag n).
C11_CountsBoundedByEligibleEvents ==
    \A m \in Modality :
        HitsOf(m) + missesBy[m] + score.falseAlarms[m]
            <= Cardinality(EligibleEvents)

\* the single enabled modality of a single-modality session
OnlyModality == CHOOSE m \in settings.enabled : TRUE

\* every eligible event was answered while it was the one on display: the
\* handler recorded a response for it (a further response for the same event
\* is ignored, so one recorded response stands for "exactly once")
AnsweredEveryEligible ==
    \A i \in EligibleEvents : <<history[i].id, OnlyModality>> \in respondedTo

NonTrivialDivisors(k) == {d \in 2 .. (k - 1) : k % d = 0}

\* the lags of the generated events
LagsDrawn == {history[i].n : i \in 1 .. Len(history)}

\* C13: in variable-lag mode with nLevel = k every generated event's lag is
\* in 1..k and is no non-trivial divisor of k (for k = 6: never 2 or 3).
C13_LagAvoidsDivisors ==
    settings.variableN =>
        /\ LagsDrawn \subseteq 1 .. settings.nLevel
        /\ LagsDrawn \cap NonTrivialDivisors(settings.nLevel) = {}

\* the step is the callback of the feedback step's timeout
FeedbackWaitElapses == trialStep = "feedback" /\ calOp'.name = "timer"

\* the step is a response the handler let through
ResponseStep == calOp'.name = "respond" /\ calOp'.accepted

\* the threshold of the modality under test
TestedThreshold == thresholdsRef[ThresholdKey(mode)]

\* C14: in build B a correct ("different") response leaves the tested
\* threshold as it was, and when its feedback wait elapses the run ends:
\* onComplete is called with the thresholds, and there is no further
\* stimulus step and no increment of the trial count.
C14_CorrectResponseEndsRun ==
    /\ [][(calVariant = "B" /\ ResponseStep /\ ~calOp'.same)
          => thresholdsRef' = thresholdsRef]_vars
    /\ [][(calVariant = "B" /\ lastAnswer = "different" /\ FeedbackWaitElapses)
          => /\ completeCalls' = completeCalls + 1
             /\ lastComplete' = thresholdsRef
             /\ trialCount' = trialCount
             /\ trialStep' # "stimulus"]_vars

RECURSIVE TimesFiveQuarters(_, _)
\* x * 1.25^k, each product rounded down to the unit
TimesFiveQuarters(x, k) ==
    IF k = 0 THEN x ELSE (5 * TimesFiveQuarters(x, k - 1)) \div 4

\* a run of build B is under way
AscendingRun == calVariant = "B" /\ mode # "selection"

\* C15: in build B, starting the calibration of a modality sets its working
\* threshold to the modality's minimum and the trial count to 0; from then on
\* the threshold is the minimum times 1.25^k after k incorrect responses, it
\* never decreases, and it changes only by an incorrect ("same") response,
\* which multiplies it by 1.25 (to the unit of the model).
C15_AscendingThreshold ==
    /\ [][(calVariant = "B" /\ calOp'.name = "start")
          => /\ TestedThreshold' = MinDelta(mode')
             /\ trialCount' = 0]_vars
    /\ [](AscendingRun
            => TestedThreshold = TimesFiveQuarters(MinDelta(mode), incorrects))
    /\ [][(AscendingRun /\ mode' = mode)
          => /\ TestedThreshold' >= TestedThreshold
             /\ TestedThreshold' # TestedThreshold
                   => /\ ResponseStep /\ calOp'.same
                      /\ 4 * TestedThreshold' <= 5 * TestedThreshold
                      /\ 5 * TestedThreshold < 4 * (TestedThreshold' + 1)]_vars

\* C15 witness: a run of build B after three incorrect responses and at
\* least one correct one
C15_ThreeStepsUp ==
    /\ AscendingRun
    /\ incorrects = 3
    /\ responses > incorrects
    /\ TestedThreshold = TimesFiveQuarters(MinDelta(mode), 3)
    /\ TestedThreshold > MinDelta(mode)

\* C16: a run of build B in which every probe is answered ends by itself:
\* the trial count never reaches MAX_CALIBRATION_TRIALS and no more than that
\* many responses are taken; when the feedback wait of the response number
\* MAX_CALIBRATION_TRIALS elapses, onComplete is called with the current
\* thresholds and no further trial starts; and every started run ends.
C16_RunEndsAtTrialCap ==
    /\ [](calVariant = "B"
            => /\ trialCount < MAX_CALIBRATION_TRIALS
               /\ responses <= MAX_CALIBRATION_TRIALS)
    /\ [][(/\ calVariant = "B"
           /\ FeedbackWaitElapses
           /\ responses = MAX_CALIBRATION_TRIALS)
          => /\ completeCalls' = completeCalls + 1
             /\ lastComplete' = thresholdsRef
             /\ trialCount' = trialCount
             /\ trialStep' # "stimulus"]_vars
    /\ (AscendingRun ~> ~calMounted)

\* C16 witness: the run was ended by the timeout that followed the 20th of
\* 20 incorrect answers
C16_EndedByTrialCap ==
    /\ calVariant = "B"
    /\ calOp.name = "timer"
    /\ completeCalls = 1
    /\ incorrects = MAX_CALIBRATION_TRIALS
    /\ responses = MAX_CALIBRATION_TRIALS
    /\ lastComplete = thresholdsRef

\* a staircase update has been applied in the run under way
AfterStaircaseUpdate == mode # "selection" /\ responses > 0

\* C17: after any staircase update, in either build and from every
\* threshold the settings screen can supply, the tested threshold is at
\* least its modality's minimum, and positive.
C17_ThresholdAtLeastMinimum ==
    AfterStaircaseUpdate
        => /\ TestedThreshold >= MinDelta(mode)
           /\ TestedThreshold > 0

\* C18: in build A every incorrect response multiplies the tested threshold
\* by 1.25 (to the unit of the model), which strictly increases it, and
\* every correct response sets it to max(minimum, threshold x 0.90), which
\* does not increase it and leaves it at or above the minimum.
C18_StaircaseStepsAreMonotone ==
    [][(calVariant = "A" /\ ResponseStep)
       => IF calOp'.same
          THEN /\ 4 * TestedThreshold' <= 5 * TestedThreshold
               /\ 5 * TestedThreshold < 4 * (TestedThreshold' + 1)
               /\ TestedThreshold' > TestedThreshold
          ELSE /\ TestedThreshold'
                     = Max(MinDelta(mode), (9 * TestedThreshold) \div 10)
               /\ TestedThreshold' <= TestedThreshold
               /\ TestedThreshold' >= MinDelta(mode)]_vars

\* a run of build A is under way
StaircaseRun == calVariant = "A" /\ mode # "selection"

\* the step is a timeout callback that calls onComplete
EndsByItself == calOp'.name = "timer" /\ completeCalls' = completeCalls + 1

\* C19: a run of build A that is not ended by hand finishes after exactly
\* TRIALS_PER_CALIBRATION responses, whatever their mix: the timeout after
\* the response of that number calls onComplete, no other timeout does, and
\* onComplete receives the thresholds as the last response left them (only
\* a response changes them); every started run ends.
C19_RunEndsAfterBudget ==
    /\ [](calVariant = "A" => responses <= TRIALS_PER_CALIBRATION)
    /\ [][(calVariant = "A" /\ EndsByItself)
          => /\ responses = TRIALS_PER_CALIBRATION
             /\ lastComplete' = thresholdsRef]_vars
    /\ [][(/\ calVariant = "A"
           /\ FeedbackWaitElapses
           /\ responses = TRIALS_PER_CALIBRATION)
          => EndsByItself]_vars
    /\ [][(calVariant = "A" /\ thresholdsRef' # thresholdsRef)
          => ResponseStep]_vars
    /\ (StaircaseRun ~> ~calMounted)

\* C19 witness: a run of build A ended by itself after 15 responses of
\* which some were correct and some were not, and its thresholds were
\* handed over and stored
C19_EndedAfterMixedRun ==
    /\ calVariant = "A"
    /\ calOp.name = "timer"
    /\ completeCalls = 1
    /\ responses = TRIALS_PER_CALIBRATION
    /\ incorrects \in 1 .. (TRIALS_PER_CALIBRATION - 1)
    /\ lastComplete = thresholdsRef
    /\ \A k \in DOMAIN thresholdsRef : settings[k] = thresholdsRef[k]

\* the calibration state a response must leave alone when it is ignored
ProtocolState ==
    <<thresholdsRef, feedback, trialStep, trialCount, mode, trialTimeout,
      completeCalls, settings, gameState>>

\* C20: in both builds a "same" response is classified incorrect and a
\* "different" response correct, and a response given while the selection
\* menu is shown or while the trial step is not 'response' changes nothing
\* (threshold, feedback, trial step and the rest of the protocol state).
C20_ResponseClassification ==
    [][calOp'.name = "respond"
       => IF mode = "selection" \/ trialStep # "response"
          THEN ProtocolState' = ProtocolState
          ELSE /\ lastAnswer' = "same" => feedback' = "incorrect"
               /\ lastAnswer' = "different" => feedback' = "correct"
               /\ lastAnswer' \in {"same", "different"}
               /\ trialStep' = "feedback"]_vars

\* C20 witness: a response during the lure step was ignored, in a run that
\* has had a correct and an incorrect response
C20_IgnoredDuringLure ==
    /\ calOp.name = "respond"
    /\ ~calOp.accepted
    /\ mode # "selection"
    /\ trialStep = "lure"
    /\ incorrects > 0
    /\ responses > incorrects

C22_OnlyTestedThresholdChanges ==
    [][/\ DOMAIN settings' = DOMAIN settings
       /\ \A k \in DOMAIN settings :
             settings'[k] # settings[k] =>
                 mode # "selection" /\ k = ThresholdKey(mode)]_vars

\* C22 witness: a run has returned a threshold no input of the settings
\* screen holds, so the settings did change
C22_TestedThresholdChanged ==
    /\ completeCalls = 1
    /\ incorrects > 0
    /\ \E m \in settings.enabled :
          /\ settings[ThresholdKey(m)] \notin ThresholdInputs(m)
          /\ settings[ThresholdKey(m)] = lastComplete[ThresholdKey(m)]

\* the record the latest completed session appended
LastRecord(h) == h[Len(h)]

\* a completed session has just been handed to the session-end handler
CompletedEnd(op, end) == op.name = "end" /\ end.completed

\* C23: the accuracy computed at session end is always a defined number:
\* its denominator is never zero, and with zero matches presented (the
\* hit-rate formula) or zero total trials (the formula of hits plus correct
\* rejections) it is the default 1.
C23_AccuracyAlwaysDefined ==
    [][CompletedEnd(lastOp', lastEnd') =>
          LET accuracy == LastRecord(performanceHistory').accuracy
              matches == TotalMatchCount(lastEnd'.totalMatches)
          IN /\ accuracy[2] > 0
             /\ (variant = 1 /\ matches = 0) => accuracy = <<1, 1>>
             /\ (variant = 2 /\ settings.totalTrials = 0) => accuracy = <<1, 1>>
             /\ (variant = 1 /\ matches > 0) =>
                    accuracy = <<TotalHits(lastEnd'.score), matches>>]_vars

\* C23 witness: a completed session with a zero denominator was recorded
\* with accuracy 1
C23_ZeroDenominatorRecorded ==
    /\ CompletedEnd(lastOp, lastEnd)
    /\ Len(performanceHistory) > 0
    /\ LastRecord(performanceHistory).accuracy = <<1, 1>>
    /\ \/ variant = 1 /\ TotalMatchCount(lastEnd.totalMatches) = 0
       \/ variant = 2 /\ settings.totalTrials = 0

SessionCompleted == endCalls' # endCalls /\ lastEnd'.completed

\* C25: each completed session appends exactly one PerformanceRecord to the
\* end of the performance history, and nothing else touches the history: it
\* never shrinks, and no later session, threshold adjustment or calibration
\* changes a record that is already in it.
C25_HistoryIsAppendOnly ==
    [][/\ Len(performanceHistory') >= Len(performanceHistory)
       /\ SubSeq(performanceHistory', 1, Len(performanceHistory))
              = performanceHistory
       /\ Len(performanceHistory') =
              IF SessionCompleted
              THEN Len(performanceHistory) + 1
              ELSE Len(performanceHistory)]_vars

\* C25 witness: two sessions are on record, with a calibration run and a
\* change of the thresholds between them
C25_TwoRecordsAcrossChanges ==
    /\ Len(performanceHistory) = 2
    /\ completeCalls > 0
    /\ performanceHistory[1].settings # performanceHistory[2].settings
    /\ settings.audioThreshold # performanceHistory[2].settings.audioThreshold

\* a new game component has just been mounted
Remounted == lastOp'.name = "train"

\* C26: trials are strictly sequential: at any time at most one next tick
\* is pending on the transport, each tick appends at most one event, and in
\* every state the trial counter equals the history length and the event at
\* index i has id i.
C26_TrialsAreSequential ==
    /\ [](PendingTicks <= 1)
    /\ [](trialNumber = Len(history))
    /\ [](\A i \in 1 .. Len(history) : history[i].id = i - 1)
    /\ [][Remounted \/ Len(history') <= Len(history) + 1]_vars

\* an event has just been generated, values included
Generated == lastOp.name = "generate"

MatchesIn(hist, m) == Cardinality({i \in 1 .. Len(hist) : hist[i].isMatch[m]})

\* the match counter equals the number of matches of the history, per
\* modality where it is kept per modality
CounterIsMatchCount ==
    IF variant = 1
    THEN totalMatches = Cardinality(MatchPairs(history))
    ELSE \A m \in Modality : totalMatches[m] = MatchesIn(history, m)

\* C28: a modality that is marked as a match has the value of the event n
\* trials back, and the match counter equals the number of (event, modality)
\* pairs of the history that are marked as a match.
C28_MatchCopiesTheValue ==
    /\ \A i \in 1 .. Len(history), m \in Modality :
           history[i].isMatch[m] =>
               /\ history[i].id - history[i].n >= 0
               /\ history[i][Field(m)] =
                      history[history[i].id - history[i].n + 1][Field(m)]
    /\ CounterIsMatchCount

\* a match two trials back, behind an event that is not the target
C28_MatchTwoBack ==
    /\ Generated
    /\ Len(history) = 3
    /\ history[3].n = 2
    /\ history[3].isMatch["audio"]
    /\ history[2].audio # history[1].audio
    /\ history[3].audio = history[1].audio
    /\ TotalMatchCount(totalMatches) >= 1

\* the random value generateNextEvent drew for the modality of the event
\* fell in the lure band [matchRate, matchRate + lureRate); no value is drawn
\* for an event in its ramp-up or for a modality that is not enabled
InLureBand(op, e, m) ==
    /\ e.id >= e.n
    /\ m \in settings.enabled
    /\ settings.matchRate <= op.rand[m]
    /\ op.rand[m] < settings.matchRate + settings.lureRate

\* the place of a modality in the order spatial, audio, color, shape
Place(m) == CHOOSE k \in 1 .. Len(ModalityOrder) : ModalityOrder[k] = m

\* C29: an event has one lure label at most: the first enabled modality, in
\* the order spatial, audio, color, shape, whose draw fell in the lure band,
\* and 'none' exactly when no draw did; the labelled modality is not a match
\* in that event.
C29_LureLabelIsFirstLure ==
    Generated =>
        LET e == history[Len(history)]
        IN /\ e.lureType \in Modality \cup {"none"}
           /\ e.lureType = "none" <=>
                  ~ \E m \in Modality : InLureBand(lastOp, e, m)
           /\ e.lureType # "none" =>
                  /\ InLureBand(lastOp, e, e.lureType)
                  /\ \A m \in Modality :
                         InLureBand(lastOp, e, m) =>
                             Place(e.lureType) <= Place(m)
                  /\ ~ e.isMatch[e.lureType]

\* both enabled modalities drew a lure, and the first of them is the label
C29_TwoLuresOneLabel ==
    /\ Generated
    /\ settings.enabled = {"color", "shape"}
    /\ \A m \in settings.enabled :
           InLureBand(lastOp, history[Len(history)], m)
    /\ history[Len(history)].lureType = "color"

\* the cell lies inside the grid
InGrid(cell) ==
    /\ 0 <= cell.row /\ cell.row < settings.gridRows
    /\ 0 <= cell.col /\ cell.col < settings.gridCols

\* the two cells are one row or one column apart
OneStepApart(a, b) ==
    \/ a.col = b.col /\ (a.row = b.row + 1 \/ b.row = a.row + 1)
    \/ a.row = b.row /\ (a.col = b.col + 1 \/ b.col = a.col + 1)

\* the cells of the grid
GridCells ==
    [row : 0 .. (settings.gridRows - 1), col : 0 .. (settings.gridCols - 1)]

\* C30: a spatial lure puts the event in a cell inside the grid, one step
\* from the cell of the event n trials back; when that cell has no neighbour
\* inside the grid the random cell is kept; every event of the history lies
\* inside the grid.
C30_SpatialLureIsOneStepInGrid ==
    /\ \A i \in 1 .. Len(history) : InGrid(history[i].spatial)
    /\ (Generated /\ InLureBand(lastOp, history[Len(history)], "spatial")) =>
           LET e == history[Len(history)]
               target == history[e.id - e.n + 1].spatial
           IN IF \E cell \in GridCells : OneStepApart(cell, target)
              THEN InGrid(e.spatial) /\ OneStepApart(e.spatial, target)
              ELSE e.spatial = lastOp.random

\* a lure in the larger grid that took the place of the random cell
C30_LureMovedOneStep ==
    /\ Generated
    /\ settings.gridRows = MaxGrid
    /\ InLureBand(lastOp, history[Len(history)], "spatial")
    /\ history[Len(history)].spatial # lastOp.random
    /\ OneStepApart(history[Len(history)].spatial,
                    history[Len(history) - 1].spatial)

\* the vertices at which two shapes of the same vertex count differ
DifferingVertices(a, b) == {k \in 1 .. Len(a) : a[k] # b[k]}

\* the event n trials back of the last event
TargetOfLast == history[history[Len(history)].id - history[Len(history)].n + 1]

HuesOf(e) == IF variant = 1 THEN {e.color} ELSE {e.hues[k] : k \in 1 .. 3}

\* C32: a color lure shifts hues modulo 360: with every threshold the
\* settings can hold, each hue of a lure (and so of every event) is in
\* [0, 360).
C32_LureHuesInRange ==
    \A i \in 1 .. Len(history) :
        \A h \in HuesOf(history[i]) : 0 <= h /\ h < HueCircle

\* the sum of three hues
HueSum(h) == h[1] + h[2] + h[3]

\* C33: with three hues a color lure changes two different slots of the
\* triple n trials back, one by +threshold and the other by -threshold,
\* leaves the third as it was, and has the mean of that triple.
C33_HueLureKeepsTheMean ==
    (/\ Generated
     /\ variant = 2
     /\ InLureBand(lastOp, history[Len(history)], "color")) =>
        LET lure == history[Len(history)].hues
            target == TargetOfLast.hues
        IN /\ \E i, j \in 1 .. 3 :
                  /\ i # j
                  /\ lure[i] = target[i] + settings.colorThreshold
                  /\ lure[j] = target[j] - settings.colorThreshold
                  /\ \A k \in (1 .. 3) \ {i, j} : lure[k] = target[k]
           /\ HueSum(lure) = HueSum(target)

\* C34: whatever the base interval and the variable-ISI band, the delay
\* scheduled before the next tick is at least stimulusDuration + 100 ms.
C34_DelayCoversTheStimulus ==
    lastOp.name = "schedule" => nextIsi >= stimulusDuration + 100

\* the steps of a calibration trial, in the order of the switch
TrialSteps ==
    <<"stimulus", "isi1", "noise", "isi2", "lure", "response", "feedback">>

\* the step that follows a step in that order, the first after the last
StepAfter(step) ==
    LET i == CHOOSE k \in 1 .. Len(TrialSteps) : TrialSteps[k] = step
    IN TrialSteps[(i % Len(TrialSteps)) + 1]

\* a calibration run of a modality is on screen
RunOnScreen == calMounted /\ mode # "selection"

\* C35: within a calibration run the trial step only ever changes to the
\* next one of stimulus, isi1, noise, isi2, lure, response, feedback, and
\* from feedback to the stimulus of the next trial; no timeout is pending in
\* the response step, which is left only by an answer or by the manual end
\* of the run.
C35_StepsInFixedOrder ==
    /\ [](RunOnScreen /\ trialStep = "response" /\ ~effectDue =>
              trialTimeout = NoTimeout)
    /\ [][(RunOnScreen /\ mode' = mode /\ trialStep' # trialStep) =>
              trialStep' = StepAfter(trialStep)]_vars
    /\ [][(RunOnScreen /\ trialStep = "response" /\
           (trialStep' # trialStep \/ mode' # mode)) =>
              calOp'.name \in {"respond", "end"}]_vars

\* the stimulus of a second trial has started, after the feedback of the first
C35_SecondTrialAfterFeedback ==
    /\ RunOnScreen
    /\ trialCount = 1
    /\ trialStep = "stimulus"
    /\ calOp.name = "timer"
    /\ responses = 1

\* the ref copies hold the committed history, trial index and score
MirrorsCurrent ==
    /\ historyRef = history
    /\ trialNumberRef = trialNumber
    /\ scoreRef = score

\* the step is a response that the handler scored
ScoredResponseStep == respondedTo' # respondedTo

\* C36: a tick and a scored response read ref copies that equal the committed
\* history, trial index and score, and the response is recorded for the
\* last event that was presented.
C36_HandlersReadLatestState ==
    [][(TickStep \/ ScoredResponseStep) =>
          /\ MirrorsCurrent
          /\ ScoredResponseStep =>
                respondedTo' \ respondedTo
                    = {<<history[Len(history)].id, lastOp'.mod>>}]_vars

\* C37: for every eligible event and enabled modality that is not marked as
\* a match, the value of the modality differs from the value of the event n
\* trials back.
C37_NonMatchDiffersFromTarget ==
    \A i \in 1 .. Len(history) :
        \A m \in settings.enabled :
            (history[i].id >= history[i].n /\ ~history[i].isMatch[m]) =>
                history[i][Field(m)] #
                    history[history[i].id - history[i].n + 1][Field(m)]

MaxScoredTrials == 3   \* totalTrials of the two-modality sessions

\* sessions with two enabled modalities that are long enough to hold more
\* matches than trials
ScoredSettings ==
    [nLevel : {1},
     variableN : {FALSE},
     totalTrials : {MaxScoredTrials},
     matchRate : {r[1] : r \in RateConfigs},
     lureRate : {r[2] : r \in RateConfigs},
     feedbackEnabled : {TRUE},
     enabled : {{"spatial", "audio"}},
     audioThreshold : {AudioThresholdDefault},
     colorThreshold : {ColorThresholdDefault},
     shapeThreshold : {ShapeThresholdDefault}]

ScoredInit == InitWith(ScoredSettings)

ScoredSpec == ScoredInit /\ [][Next]_vars

\* C38: the accuracy of every performance record lies between 0 and 1.
C38_AccuracyInUnitRange ==
    \A i \in 1 .. Len(performanceHistory) :
        LET acc == performanceHistory[i].accuracy
        IN /\ acc[2] > 0
           /\ 0 <= acc[1]
           /\ acc[1] <= acc[2]

MaxAdjustTrials == 2   \* largest totalTrials of the sessions with manual thresholds

\* sessions that start from thresholds entered in the Manual Thresholds
\* inputs of the settings screen
ManualSettings ==
    [nLevel : {1},
     variableN : {FALSE},
     totalTrials : 1 .. MaxAdjustTrials,
     matchRate : {r[1] : r \in RateConfigs},
     lureRate : {r[2] : r \in RateConfigs},
     feedbackEnabled : {TRUE},
     enabled : {{"audio"}},
     audioThreshold : ThresholdInputs("audio"),
     colorThreshold : ThresholdInputs("color"),
     shapeThreshold : ThresholdInputs("shape")]

AdjustInit == InitWith(ManualSettings)

AdjustSpec == AdjustInit /\ [][Next]_vars

\* the thresholds the difficulty adjustment writes
AdjustedKeys == {"audioThreshold", "colorThreshold", "shapeThreshold"}

\* the step records a completed session
SessionRecorded == Len(performanceHistory') = Len(performanceHistory) + 1

\* C39: the difficulty adjustment after a completed session raises none of
\* the audio, color and shape thresholds, and leaves them as they are when
\* the accuracy is 0.75 or less.
C39_AdjustmentNeverRaises ==
    [][SessionRecorded =>
          /\ \A k \in AdjustedKeys : settings'[k] <= settings[k]
          /\ ~AboveTarget(performanceHistory'[Len(performanceHistory')].accuracy)
                => \A k \in AdjustedKeys : settings'[k] = settings[k]]_vars

----------------------------------------------------------------------------
(* The screens around one game component.  The game component of the first *)
(* session is followed step by step, startAudio's continuation after its   *)
(* unmount included; the App's handlers move between the screens.  A game  *)
(* component that is mounted later is not followed.                        *)

MaxFlowTrials == 1   \* largest totalTrials of the followed session

\* the settings as the settings screen saved them: pre-game calibration on
\* or off, the totalTrials input emptied or filled
FlowSettings ==
    {[DefaultSettings EXCEPT !.enabled = {"audio"},
                             !.totalTrials = t,
                             !.calibrationEnabled = c] :
        t \in {0, MaxFlowTrials}, c \in BOOLEAN}

\* the game component has just mounted, after the pre-game calibration where
\* it is enabled
FlowInit == InitWith(FlowSettings)

\* "Train Again" and "Start Training", once their screen is rendered
FlowStartTraining == ~mounted /\ handleStartTraining

\* "Main Menu" of the end screen, once it is rendered
FlowBackToMenu == ~mounted /\ BackToMenu

\* "Calibrate" of the main menu
FlowStartCalibration == ~mounted /\ handleStartCalibration

\* the Calibration component is on screen and its run ends
FlowCalibrationReturns == gameState = "Calibrating" /\ CalibrationReturns

\* the Calibration component is on screen and "Finish" is clicked
FlowCalibrationQuit == gameState = "Calibrating" /\ handleCalibrationQuit

FlowNext ==
    \/ AudioStarted
    \/ Tick
    \/ Render
    \/ \E type \in Modality : handleUserResponse(type)
    \/ quitSession
    \/ FlowStartTraining
    \/ FlowBackToMenu
    \/ FlowStartCalibration
    \/ FlowCalibrationReturns
    \/ FlowCalibrationQuit

FlowSpec == FlowInit /\ [][FlowNext]_vars

\* the step is a completion of a calibration run
CalibrationCompletes == completeCalls' = completeCalls + 1

\* C40: with pre-game calibration enabled the Playing screen is entered only
\* from Calibrating, by a completion of a run that Start Training opened;
\* Calibrating is left only by a completion, to Playing when Start Training
\* opened it and to Start when the Calibrate button did, or by a quit, to
\* Start; and the calibrating-for-game flag is false on every other screen.
C40_CalibrationGatesTheGame ==
    /\ [](gameState # "Calibrating" => ~isCalibratingForGame)
    /\ [][(settings.calibrationEnabled /\ gameState # "Playing" /\
           gameState' = "Playing") =>
              /\ gameState = "Calibrating"
              /\ isCalibratingForGame
              /\ CalibrationCompletes]_vars
    /\ [][(gameState = "Calibrating" /\ gameState' # "Calibrating") =>
              IF CalibrationCompletes
              THEN gameState' = IF isCalibratingForGame THEN "Playing"
                                ELSE "Start"
              ELSE gameState' = "Start"]_vars

====
